---- MODULE Spec2Model ----
(***************************************************************************)
(* Snowlink: model of the Sync Coordinator (agent/orchestrator.py) and of  *)
(* the collaborators it drives.                                            *)
(*                                                                         *)
(* A sync job is the body of sync_confluence_page / sync_jira_issue.  It   *)
(* is modelled as a record (the SyncResult under construction, the         *)
(* position in the pipeline, the pending exception and the sequence of     *)
(* collaborator calls made so far) that is advanced by one pure operator   *)
(* per pipeline step.  What a collaborator answers (a value, None, an      *)
(* exception) is an input of the step.                                     *)
(*                                                                         *)
(*   Spec       one job, one action per pipeline step                      *)
(*   SpecBatch  batch_sync over a worker pool, sequential or parallel      *)
(*   SpecWriter    one call of SnowflakeClient.write_comments, item by item  *)
(*   SpecGraph     sequential calls of the LineageTracker                    *)
(*   SpecLineage   pool threads recording lineage concurrently               *)
(*   SpecTraverse  one get_upstream / get_downstream call, frame by frame    *)
(***************************************************************************)
EXTENDS Integers, Sequences, FiniteSets, TLC

\* ------------------------------------------------------------------ bounds
MaxTables == 1        \* tables in an extracted snapshot
MaxColumns == 1       \* column comments one write can make
MaxIssues == 1        \* issues in a drift report
MaxChecks == 1        \* failed checks in a quality report
NumBackends == 2      \* primary + fallbacks of the multi-backend extractor
MaxJobs == 3          \* sources submitted to one batch
MaxWriteTables == 2   \* tables of the snapshot handed to write_comments
MaxWriteColumns == 1  \* columns of each of these tables
MaxCalls == 3         \* sequential calls made on one LineageTracker
MaxDriftTables == 2   \* tables a schema snapshot names
MaxDriftColumns == 3  \* columns of the table whose columns are compared
NumThreads == 2       \* pool threads inside the LineageTracker at once
NumNodes == 3         \* node ids of a traversed graph
MaxEdges == 3         \* edges of a traversed graph
MaxDepth == 5         \* largest depth argument of a traversal
MaxSyncs == 2         \* jobs run one after the other on one LineageTracker
MaxSyncTables == 2    \* tables of the snapshot of each of these jobs

\* ------------------------------------------------------- program constants
MaxAttempts == 3      \* @retry(stop=stop_after_attempt(3)) on LLMExtractor
DefaultDepth == 3     \* get_upstream / get_downstream(node_id, depth=3)
MaxWorkers == 4       \* ThreadPoolExecutor(max_workers=4)
WriteAttempts == 3    \* @retry(stop=stop_after_attempt(3)) on write_comments

VARIABLES
  cfg,        \* the orchestrator's configuration (which optional parts exist)
  opts,       \* the arguments of the sync call
  job,        \* the running job of Spec
  warehouse,  \* number of comments written to the warehouse so far
  sources,    \* SpecBatch: the submitted sources, in submission order
  parallel,   \* SpecBatch: the parallel argument of batch_sync
  futures,    \* SpecBatch: per submitted job, its state in the pool
  batch,      \* SpecBatch: the BatchSyncResult under construction
  bpc,        \* SpecBatch: position of batch_sync
  wr,         \* SpecWriter: one call of SnowflakeClient.write_comments;
              \* SpecMulti: one call of MultiLLMExtractor.extract_schema
  lin,        \* the LineageTracker: node map, edge list, the two files
  th,         \* SpecLineage: the pool threads inside the tracker;
              \* SpecResync: the jobs run so far
  trav,       \* SpecTraverse: one get_upstream / get_downstream call
  dr          \* SpecDrift: one comparison of a documented and a live schema;
              \* SpecQuality: the DataQualityChecker of the orchestrator

vars == <<cfg, opts, job, warehouse, sources, parallel, futures, batch, bpc,
          wr, lin, th, trav, dr>>

\* the parts of the program a specification does not exercise
others == <<wr, lin, th, trav, dr>>
Unused == "unused"

\* ------------------------------------------------------------ configuration
SourceTypes == {"confluence", "jira"}

\* SyncOrchestrator.__init__: which optional components were constructed
Configs ==
  [ multi : BOOLEAN, vector : BOOLEAN, lineage : BOOLEAN, drift : BOOLEAN,
    quality : BOOLEAN, notifications : BOOLEAN, audit : BOOLEAN,
    dbt : BOOLEAN, er : BOOLEAN ]

\* the arguments of sync_confluence_page / sync_jira_issue
Options ==
  [ source_type : SourceTypes, dry_run : BOOLEAN, skip_drift_check : BOOLEAN,
    skip_quality_check : BOOLEAN ]

\* ------------------------------------------------------------- the extractor
\* what one attempt / one backend produces: an exception, a response that is
\* not valid JSON, an unavailable provider, or a snapshot with n tables
Produced(kind, n) == [kind |-> kind, n |-> n]
Snapshots == { Produced("ok", n) : n \in 0..MaxTables }
AttemptOutcomes == { Produced("raise", 0), Produced("unparseable", 0) } \cup Snapshots
BackendOutcomes == { Produced("unavailable", 0), Produced("raise", 0) } \cup Snapshots

\* the value extract_schema hands to the job: a snapshot, None, or an exception
NoSchema == Produced("unset", 0)
SchemaRaise == Produced("raise", 0)
SchemaNone == Produced("none", 0)

\* LLMExtractor.extract_schema under tenacity: an attempt that raises is
\* retried, up to MaxAttempts; JSONDecodeError returns None (no retry)
RECURSIVE LLMExtractFrom(_, _)
LLMExtractFrom(attempts, i) ==
  IF i > MaxAttempts \/ i > Len(attempts) THEN SchemaRaise
  ELSE IF attempts[i].kind = "raise" THEN LLMExtractFrom(attempts, i + 1)
  ELSE IF attempts[i].kind = "unparseable" THEN SchemaNone
  ELSE attempts[i]

LLMExtract(attempts) == LLMExtractFrom(attempts, 1)

\* MultiLLMExtractor.extract_schema: providers in order, first success wins,
\* None when every provider failed
RECURSIVE MultiExtractFrom(_, _)
MultiExtractFrom(backends, i) ==
  IF i > Len(backends) THEN SchemaNone
  ELSE IF backends[i].kind \in {"unavailable", "raise"} THEN MultiExtractFrom(backends, i + 1)
  ELSE backends[i]

MultiExtract(backends) == MultiExtractFrom(backends, 1)

ExtractorInputs(c) ==
  IF c.multi THEN [1..NumBackends -> BackendOutcomes]
  ELSE [1..MaxAttempts -> AttemptOutcomes]

RunExtractor(c, x) == IF c.multi THEN MultiExtract(x) ELSE LLMExtract(x)

\* -------------------------------------------------- collaborator answers
\* SchemaDriftDetector.compare: raises (the live-schema lookup failed) or
\* returns a report
DriftOutcomes ==
  { d \in [raise : BOOLEAN, total : 0..MaxIssues, high : 0..MaxIssues] :
      /\ d.high <= d.total
      /\ d.raise => d.total = 0 }

\* SnowflakeClient.write_comments: raises (no connection after the retries) or
\* returns counts and per-item errors; aborted is the result whose "error" key
\* is set (the loop was left by an exception)
WriteErrorSets == { <<>>, <<"sf_table">>, <<"sf_column">>, <<"sf_table", "sf_column">> }

WriteOutcomes(n) ==
  { w \in [raise : BOOLEAN, aborted : BOOLEAN, tables_updated : 0..MaxTables,
           columns_updated : 0..MaxColumns, errors : WriteErrorSets] :
      /\ w.tables_updated <= n
      /\ w.raise => (/\ w.tables_updated = 0 /\ w.columns_updated = 0
                     /\ w.errors = <<>> /\ ~w.aborted) }

\* DataQualityChecker.generate_checks_from_schema + run_checks
QualityOutcomes ==
  { q \in [raise : BOOLEAN, failed : 0..MaxChecks] : q.raise => q.failed = 0 }

\* --------------------------------------------------------------- the job
NoReport == [ran |-> FALSE, total |-> 0, high |-> 0]

\* what write_comments returned to the job (sf_result)
NoWrite == [ran |-> FALSE, errors |-> <<>>, aborted |-> FALSE]

\* SyncResult(success=False, ...) plus the job's control state
NewJob(source_type, source_id) ==
  [ pc |-> "start", exc |-> "none", page |-> "unset", schema |-> NoSchema,
    report |-> NoReport, source_type |-> source_type, source_id |-> source_id,
    success |-> FALSE, tables_found |-> 0, tables_updated |-> 0,
    columns_updated |-> 0, drift_issues |-> 0, quality_failures |-> 0,
    errors |-> <<>>, warnings |-> <<>>, trace |-> <<>>, written |-> 0,
    sf |-> NoWrite ]

\* a collaborator is invoked
Call(js, name) == [js EXCEPT !.trace = Append(@, name)]

\* an exception is raised inside the try block: control goes to the handler
Raise(js, tag) == [js EXCEPT !.pc = "handler", !.exc = tag]

Goto(js, pc) == [js EXCEPT !.pc = pc]

\* ---------------------------------------------------------- pipeline steps
\* Each operator is one step of sync_confluence_page / sync_jira_issue:
\* c the configuration, o the call's arguments, js the job, and the answers
\* of the collaborators the step calls.

\* audit.log_sync_start, before the try block: an exception leaves the job
StepStart(c, o, js, auditOk) ==
  IF ~c.audit THEN Goto(js, "fetch")
  ELSE IF auditOk THEN Goto(Call(js, "audit_start"), "fetch")
  ELSE [Call(js, "audit_start") EXCEPT !.pc = "raised", !.exc = "audit_start"]

\* get_page / get_issue return None on any error; the job raises ValueError
StepFetch(c, o, js, fetched) ==
  IF fetched THEN [Call(js, "fetch") EXCEPT !.page = "data", !.pc = "extract"]
  ELSE Raise([Call(js, "fetch") EXCEPT !.page = "none"], "fetch")

\* StepExtract testing 'not schema' only: an empty table list goes on
StepExtract_NoEmptyCheck(c, o, js, promptOk, schema) ==
  IF ~promptOk THEN Raise(js, "prompt")
  ELSE
    LET called == [Call(js, "extract") EXCEPT !.schema = schema] IN
    IF schema.kind = "raise" THEN Raise(called, "extract")
    ELSE IF schema.kind = "none"
      THEN [called EXCEPT !.warnings = Append(@, "no_tables"),
                          !.success = TRUE, !.pc = "returned"]
      ELSE [called EXCEPT !.tables_found = schema.n, !.pc = "index"]

\* _load_prompt, then extract_schema; a falsy schema or an empty table list
\* returns success with a warning
StepExtract(c, o, js, promptOk, schema) ==
  IF ~promptOk THEN Raise(js, "prompt")
  ELSE
    LET called == [Call(js, "extract") EXCEPT !.schema = schema] IN
    IF schema.kind = "raise" THEN Raise(called, "extract")
    ELSE IF schema.kind = "none" \/ schema.n = 0
      THEN [called EXCEPT !.warnings = Append(@, "no_tables"),
                          !.success = TRUE, !.pc = "returned"]
      ELSE [called EXCEPT !.tables_found = schema.n, !.pc = "index"]

\* vector_store.add_document
StepIndex(c, o, js, ok) ==
  IF ~c.vector THEN Goto(js, "lineage")
  ELSE IF ok THEN Goto(Call(js, "index"), "lineage")
  ELSE Raise(Call(js, "index"), "index")

\* lineage.add_document, then add_table + link_table_to_document per table
StepLineage(c, o, js, ok) ==
  IF ~c.lineage THEN Goto(js, "drift")
  ELSE IF ok THEN Goto(Call(js, "lineage"), "drift")
  ELSE Raise(Call(js, "lineage"), "lineage")

\* the job going on to the write without the drift check
StepDrift_Skipped(c, o, js, d) == Goto(js, "write")

\* drift_detector.compare; only the Confluence job looks at high_severity
StepDrift(c, o, js, d) ==
  IF ~(c.drift /\ ~o.skip_drift_check) THEN Goto(js, "write")
  ELSE
    LET called == Call(js, "drift") IN
    IF d.raise THEN Raise(called, "drift")
    ELSE
      LET recorded == [called EXCEPT !.drift_issues = d.total,
                         !.report = [ran |-> TRUE, total |-> d.total, high |-> d.high],
                         !.pc = "write"] IN
      IF o.source_type = "confluence" /\ d.high > 0
        THEN LET warned == [recorded EXCEPT !.warnings = Append(@, "drift_high")] IN
             IF c.notifications THEN Call(warned, "notify_drift") ELSE warned
        ELSE recorded

\* the dry_run return, else snowflake.write_comments; only the Confluence job
\* copies the writer's errors
StepWrite(c, o, js, w) ==
  IF o.dry_run THEN [js EXCEPT !.success = TRUE, !.pc = "returned"]
  ELSE
    LET called == Call(js, "write") IN
    IF w.raise THEN Raise(called, "write")
    ELSE [called EXCEPT
            !.sf = [ran |-> TRUE, errors |-> w.errors, aborted |-> w.aborted],
            !.tables_updated = w.tables_updated,
            !.columns_updated = w.columns_updated,
            !.written = w.tables_updated + w.columns_updated,
            !.errors = IF o.source_type = "confluence" THEN @ \o w.errors ELSE @,
            !.pc = IF o.source_type = "confluence" THEN "audit_comments" ELSE "dbt"]

\* audit.log_comment_written per table (Confluence job only)
StepAuditComments(c, o, js, auditOk) ==
  IF ~c.audit THEN Goto(js, "dbt")
  ELSE IF auditOk THEN Goto(Call(js, "audit_comment"), "dbt")
  ELSE Raise(Call(js, "audit_comment"), "audit_comment")

\* dbt_gen.generate; the Confluence job reads the dbt switch and audits
StepDbt(c, o, js, genOk, auditOk) ==
  IF o.source_type = "confluence" /\ ~c.dbt THEN Goto(js, "er")
  ELSE
    LET called == Call(js, "dbt") IN
    IF ~genOk THEN Raise(called, "dbt")
    ELSE IF o.source_type = "confluence" /\ c.audit
      THEN IF auditOk THEN Goto(Call(called, "audit_dbt"), "er")
           ELSE Raise(Call(called, "audit_dbt"), "audit_dbt")
      ELSE Goto(called, "er")

\* er_gen.generate; the Confluence job reads the er_diagrams switch
StepEr(c, o, js, genOk) ==
  LET next == IF o.source_type = "confluence" THEN "quality" ELSE "complete" IN
  IF o.source_type = "confluence" /\ ~c.er THEN Goto(js, next)
  ELSE IF genOk THEN Goto(Call(js, "er"), next)
  ELSE Raise(Call(js, "er"), "er")

\* generate_checks_from_schema + run_checks (Confluence job only)
StepQuality(c, o, js, q) ==
  IF ~(c.quality /\ ~o.skip_quality_check) THEN Goto(js, "complete")
  ELSE
    LET called == Call(js, "quality") IN
    IF q.raise THEN Raise(called, "quality")
    ELSE
      LET recorded == [called EXCEPT !.quality_failures = q.failed, !.pc = "complete"] IN
      IF q.failed > 0 /\ c.notifications THEN Call(recorded, "notify_quality")
      ELSE recorded

\* result.success = True, audit.log_sync_complete, notify_sync_complete
StepComplete(c, o, js, auditOk) ==
  LET done == [js EXCEPT !.success = TRUE] IN
  IF c.audit /\ ~auditOk THEN Raise(Call(done, "audit_complete"), "audit_complete")
  ELSE
    LET logged == IF c.audit THEN Call(done, "audit_complete") ELSE done IN
    LET told == IF c.notifications /\ logged.tables_updated > 0
                  THEN Call(logged, "notify_complete") ELSE logged IN
    Goto(told, "returned")

\* except Exception: errors.append, audit.log_sync_failed, notify_sync_failed;
\* an exception of the audit sink leaves the job
StepHandler(c, o, js, auditOk) ==
  LET caught == [js EXCEPT !.errors = Append(@, js.exc)] IN
  IF c.audit /\ ~auditOk
    THEN [Call(caught, "audit_failed") EXCEPT !.pc = "raised", !.exc = "audit_failed"]
  ELSE
    LET logged == IF c.audit THEN Call(caught, "audit_failed") ELSE caught IN
    LET told == IF c.notifications THEN Call(logged, "notify_failed") ELSE logged IN
    [told EXCEPT !.pc = "returned", !.exc = "none"]

Finished(js) == js.pc \in {"returned", "raised"}

\* ------------------------------------------------------- Spec: one sync job
BatchIdle ==
  /\ sources = <<>>
  /\ parallel = FALSE
  /\ futures = <<>>
  /\ batch = [total_sources |-> 0, successful |-> 0, failed |-> 0, results |-> <<>>]
  /\ bpc = "idle"

Init ==
  /\ cfg \in Configs
  /\ opts \in Options
  /\ job = NewJob(opts.source_type, 1)
  /\ warehouse = 0
  /\ BatchIdle
  /\ wr = Unused /\ lin = Unused /\ th = Unused /\ trav = Unused
  /\ dr = Unused

\* the job moves to js; the comments it wrote reach the warehouse
Advance(js) ==
  /\ job' = js
  /\ warehouse' = warehouse + (js.written - job.written)
  /\ UNCHANGED <<others, cfg, opts, sources, parallel, futures, batch, bpc>>

Start ==
  /\ job.pc = "start"
  /\ \E auditOk \in BOOLEAN : Advance(StepStart(cfg, opts, job, auditOk))

Fetch ==
  /\ job.pc = "fetch"
  /\ \E fetched \in BOOLEAN : Advance(StepFetch(cfg, opts, job, fetched))

Extract ==
  /\ job.pc = "extract"
  /\ \E promptOk \in BOOLEAN, x \in ExtractorInputs(cfg) :
       Advance(StepExtract(cfg, opts, job, promptOk, RunExtractor(cfg, x)))

Index ==
  /\ job.pc = "index"
  /\ \E ok \in BOOLEAN : Advance(StepIndex(cfg, opts, job, ok))

Lineage ==
  /\ job.pc = "lineage"
  /\ \E ok \in BOOLEAN : Advance(StepLineage(cfg, opts, job, ok))

Drift ==
  /\ job.pc = "drift"
  /\ \E d \in DriftOutcomes : Advance(StepDrift(cfg, opts, job, d))

Write ==
  /\ job.pc = "write"
  /\ \E w \in WriteOutcomes(job.tables_found) : Advance(StepWrite(cfg, opts, job, w))

AuditComments ==
  /\ job.pc = "audit_comments"
  /\ \E auditOk \in BOOLEAN : Advance(StepAuditComments(cfg, opts, job, auditOk))

Dbt ==
  /\ job.pc = "dbt"
  /\ \E genOk \in BOOLEAN, auditOk \in BOOLEAN :
       Advance(StepDbt(cfg, opts, job, genOk, auditOk))

Er ==
  /\ job.pc = "er"
  /\ \E genOk \in BOOLEAN : Advance(StepEr(cfg, opts, job, genOk))

Quality ==
  /\ job.pc = "quality"
  /\ \E q \in QualityOutcomes : Advance(StepQuality(cfg, opts, job, q))

Complete ==
  /\ job.pc = "complete"
  /\ \E auditOk \in BOOLEAN : Advance(StepComplete(cfg, opts, job, auditOk))

Handler ==
  /\ job.pc = "handler"
  /\ \E auditOk \in BOOLEAN : Advance(StepHandler(cfg, opts, job, auditOk))

Next ==
  \/ Start
  \/ Fetch
  \/ Extract
  \/ Index
  \/ Lineage
  \/ Drift
  \/ Write
  \/ AuditComments
  \/ Dbt
  \/ Er
  \/ Quality
  \/ Complete
  \/ Handler

Spec == Init /\ [][Next]_vars

TypeOK ==
  /\ cfg \in Configs
  /\ opts \in Options
  /\ job.pc \in {"start", "fetch", "extract", "index", "lineage", "drift", "write",
                 "audit_comments", "dbt", "er", "quality", "complete", "handler",
                 "returned", "raised"}
  /\ warehouse \in 0..(MaxTables + MaxColumns)

\* ------------------------------------------------ a whole job, run to its end
\* what every collaborator answers to one job
Calm ==
  [ audit_start |-> TRUE, fetched |-> TRUE, prompt |-> TRUE,
    extract |-> Produced("ok", 1), index |-> TRUE, lineage |-> TRUE,
    drift |-> [raise |-> FALSE, total |-> 0, high |-> 0],
    write |-> [raise |-> FALSE, aborted |-> FALSE, tables_updated |-> 1,
               columns_updated |-> 1,
               errors |-> <<>>],
    audit_comment |-> TRUE, dbt |-> TRUE, audit_dbt |-> TRUE, er |-> TRUE,
    quality |-> [raise |-> FALSE, failed |-> 0],
    audit_complete |-> TRUE, audit_failed |-> TRUE ]

\* the answers the jobs of a batch are run against: everything works, or the
\* named collaborators fail
Worlds ==
  { Calm,
    [Calm EXCEPT !.fetched = FALSE],
    [Calm EXCEPT !.fetched = FALSE, !.audit_failed = FALSE],
    [Calm EXCEPT !.audit_start = FALSE],
    [Calm EXCEPT !.extract = Produced("raise", 0)],
    [Calm EXCEPT !.extract = Produced("ok", 0)],
    [Calm EXCEPT !.drift = [raise |-> FALSE, total |-> 1, high |-> 1]],
    [Calm EXCEPT !.write = [raise |-> FALSE, aborted |-> FALSE, tables_updated |-> 0,
                            columns_updated |-> 1, errors |-> <<"sf_table">>]] }

\* every attempt (every backend) of the extractor produces the same outcome
ExtractorAll(c, outcome) ==
  [i \in 1..(IF c.multi THEN NumBackends ELSE MaxAttempts) |-> outcome]

\* the step the job is at, with the answers of world w
Step(c, o, js, w) ==
  CASE js.pc = "start" -> StepStart(c, o, js, w.audit_start)
    [] js.pc = "fetch" -> StepFetch(c, o, js, w.fetched)
    [] js.pc = "extract" ->
         StepExtract(c, o, js, w.prompt, RunExtractor(c, ExtractorAll(c, w.extract)))
    [] js.pc = "index" -> StepIndex(c, o, js, w.index)
    [] js.pc = "lineage" -> StepLineage(c, o, js, w.lineage)
    [] js.pc = "drift" -> StepDrift(c, o, js, w.drift)
    [] js.pc = "write" -> StepWrite(c, o, js, w.write)
    [] js.pc = "audit_comments" -> StepAuditComments(c, o, js, w.audit_comment)
    [] js.pc = "dbt" -> StepDbt(c, o, js, w.dbt, w.audit_dbt)
    [] js.pc = "er" -> StepEr(c, o, js, w.er)
    [] js.pc = "quality" -> StepQuality(c, o, js, w.quality)
    [] js.pc = "complete" -> StepComplete(c, o, js, w.audit_complete)
    [] js.pc = "handler" -> StepHandler(c, o, js, w.audit_failed)
    [] OTHER -> js

\* sync_confluence_page / sync_jira_issue from the first step to the return
\* (or to the exception that leaves the function)
RECURSIVE RunPipeline(_, _, _, _)
RunPipeline(c, o, js, w) ==
  IF Finished(js) THEN js ELSE RunPipeline(c, o, Step(c, o, js, w), w)

\* the SyncResult the caller receives
ResultOf(js) ==
  [ success |-> js.success, source_type |-> js.source_type,
    source_id |-> js.source_id, tables_found |-> js.tables_found,
    tables_updated |-> js.tables_updated, columns_updated |-> js.columns_updated,
    drift_issues |-> js.drift_issues, quality_failures |-> js.quality_failures,
    errors |-> js.errors, warnings |-> js.warnings ]

\* -------------------------------------------------- SpecBatch: batch_sync
\* sources = confluence pages, then jira issues
SourcesOf(nc, nj) ==
  [i \in 1..(nc + nj) |->
     [type |-> IF i <= nc THEN "confluence" ELSE "jira", id |-> i]]

\* the configurations a batch is run under
BatchConfigs ==
  { c \in Configs : /\ ~c.multi /\ ~c.vector /\ ~c.lineage /\ ~c.quality
                    /\ ~c.notifications /\ c.dbt /\ c.er }

\* sync_source passes dry_run only
JobOpts(i) ==
  [ source_type |-> sources[i].type, dry_run |-> opts.dry_run,
    skip_drift_check |-> FALSE, skip_quality_check |-> FALSE ]

InitBatch ==
  /\ cfg \in BatchConfigs
  /\ opts \in { o \in Options : /\ o.source_type = "confluence"
                                /\ ~o.skip_drift_check /\ ~o.skip_quality_check }
  /\ job = NewJob("confluence", 0)
  /\ warehouse = 0
  /\ \E nc \in 0..MaxJobs, nj \in 0..MaxJobs :
       /\ nc + nj <= MaxJobs
       /\ sources = SourcesOf(nc, nj)
  /\ parallel \in BOOLEAN
  /\ futures = [i \in 1..Len(sources) |->
                  [state |-> "unsubmitted", world |-> Calm, overtook |-> FALSE,
                   js |-> NewJob(sources[i].type, sources[i].id)]]
  /\ batch = [total_sources |-> 0, successful |-> 0, failed |-> 0, results |-> <<>>]
  /\ bpc = "start"
  /\ wr = Unused /\ lin = Unused /\ th = Unused /\ trav = Unused
  /\ dr = Unused

\* Tally counting as failed the results that carry errors
Tally_ByErrors(b, result) ==
  [b EXCEPT !.results = Append(@, result),
            !.successful = IF result.success THEN @ + 1 ELSE @,
            !.failed = IF result.errors # <<>> THEN @ + 1 ELSE @]

\* batch_result.results.append(result) and the success / failed counters
Tally(b, result) ==
  [b EXCEPT !.results = Append(@, result),
            !.successful = IF result.success THEN @ + 1 ELSE @,
            !.failed = IF result.success THEN @ ELSE @ + 1]

Running == { i \in 1..Len(futures) : futures[i].state = "running" }

Done == { i \in 1..Len(futures) : futures[i].state = "done" }

\* job i runs against world w and its future completes; overtook tells
\* whether a job submitted before it was still running or queued
FinishJob(i, w) ==
  LET js == RunPipeline(cfg, JobOpts(i), futures[i].js, w) IN
  /\ futures' = [futures EXCEPT ![i] =
                   [state |-> "done", world |-> w, js |-> js,
                    overtook |-> \E k \in 1..(i - 1) : k \notin Done]]
  /\ warehouse' = warehouse + js.written

BatchStart ==
  /\ bpc = "start"
  /\ batch' = [batch EXCEPT !.total_sources = Len(sources)]
  /\ bpc' = IF Len(sources) = 0 THEN "returned"
            ELSE IF parallel THEN "submit" ELSE "sequential"
  /\ UNCHANGED <<others, cfg, opts, job, warehouse, sources, parallel, futures>>

\* self.executor.submit(sync_source, ...), in the order of sources
Submit ==
  /\ bpc = "submit"
  /\ \E i \in 1..Len(futures) :
       /\ futures[i].state = "unsubmitted"
       /\ \A k \in 1..(i - 1) : futures[k].state # "unsubmitted"
       /\ futures' = [futures EXCEPT ![i].state = "queued"]
       /\ bpc' = IF i = Len(futures) THEN "collect" ELSE "submit"
  /\ UNCHANGED <<others, cfg, opts, job, warehouse, sources, parallel, batch>>

\* a free pool thread takes the oldest queued job
WorkerTake ==
  /\ Cardinality(Running) < MaxWorkers
  /\ \E i \in 1..Len(futures) :
       /\ futures[i].state = "queued"
       /\ \A k \in 1..(i - 1) : futures[k].state # "queued"
       /\ futures' = [futures EXCEPT ![i].state = "running"]
  /\ UNCHANGED <<others, cfg, opts, job, warehouse, sources, parallel, batch, bpc>>

\* a pool thread runs sync_source to its end
WorkerRun ==
  /\ \E i \in Running, w \in Worlds : FinishJob(i, w)
  /\ UNCHANGED <<others, cfg, opts, job, sources, parallel, batch, bpc>>

\* Collect taking the futures as they complete
Collect_AsCompleted ==
  /\ bpc = "collect"
  /\ \E i \in Done :
       /\ IF futures[i].js.pc = "raised"
            THEN /\ bpc' = "raised"
                 /\ UNCHANGED <<batch, futures>>
            ELSE /\ batch' = Tally(batch, ResultOf(futures[i].js))
                 /\ futures' = [futures EXCEPT ![i].state = "collected"]
                 /\ bpc' = IF Len(batch.results) + 1 = Len(futures)
                             THEN "returned" ELSE "collect"
  /\ UNCHANGED <<others, cfg, opts, job, warehouse, sources, parallel>>

\* for future in futures: result = future.result() ...; an exception of the
\* job is re-raised by future.result() and leaves batch_sync
Collect ==
  /\ bpc = "collect"
  /\ LET k == Len(batch.results) + 1 IN
       /\ k <= Len(futures)
       /\ futures[k].state = "done"
       /\ IF futures[k].js.pc = "raised"
            THEN /\ bpc' = "raised"
                 /\ UNCHANGED batch
            ELSE /\ batch' = Tally(batch, ResultOf(futures[k].js))
                 /\ bpc' = IF k = Len(futures) THEN "returned" ELSE "collect"
  /\ UNCHANGED <<others, cfg, opts, job, warehouse, sources, parallel, futures>>

\* the sequential loop: run the next source inline, then count it
SeqRun ==
  /\ bpc = "sequential"
  /\ LET k == Len(batch.results) + 1 IN
       /\ k <= Len(futures)
       /\ \E w \in Worlds :
            /\ FinishJob(k, w)
            /\ IF futures'[k].js.pc = "raised"
                 THEN /\ bpc' = "raised"
                      /\ UNCHANGED batch
                 ELSE /\ batch' = Tally(batch, ResultOf(futures'[k].js))
                      /\ bpc' = IF k = Len(futures) THEN "returned" ELSE "sequential"
  /\ UNCHANGED <<others, cfg, opts, job, sources, parallel>>

NextBatch ==
  \/ BatchStart
  \/ Submit
  \/ WorkerTake
  \/ WorkerRun
  \/ Collect
  \/ SeqRun

SpecBatch == InitBatch /\ [][NextBatch]_vars

\* the pool threads and the calling thread keep running: every job's external
\* calls terminate, so a step that can be taken is eventually taken
SpecBatchFair == SpecBatch /\ WF_vars(NextBatch)

\* ------------------- SpecMulti: MultiLLMExtractor.extract_schema, stepwise
\* the names a configuration can give: the keys of provider_classes and a
\* name that is none of them
KnownProviders == {"openai", "anthropic", "google", "ollama"}
ProviderNames == {"openai", "anthropic", "mistral"}

\* fallback_providers of the configuration
FallbackLists == UNION { [1..n -> ProviderNames] : n \in 0..(NumBackends - 1) }

\* MultiLLMExtractor(primary, fallbacks): providers holds the named known
\* providers whose constructor did not raise (initialised)
NewExtraction(primary, fallbacks, initialised) ==
  [ pc |-> "loop", primary |-> primary, fallbacks |-> fallbacks,
    providers |-> initialised, providers_to_try |-> <<primary>> \o fallbacks,
    next |-> 1, invoked |-> <<>>, result |-> SchemaNone, extracted_by |-> "none" ]

InitMulti ==
  /\ \E primary \in ProviderNames, fallbacks \in FallbackLists :
       \E initialised \in SUBSET (({primary} \cup { fallbacks[k] : k \in 1..Len(fallbacks) })
                                   \cap KnownProviders) :
         wr = NewExtraction(primary, fallbacks, initialised)
  /\ cfg = Unused /\ opts = Unused /\ job = Unused /\ warehouse = 0
  /\ sources = Unused /\ parallel = Unused /\ futures = Unused
  /\ batch = Unused /\ bpc = Unused
  /\ lin = Unused /\ th = Unused /\ trav = Unused /\ dr = Unused

MultiStep(x) ==
  /\ wr' = x
  /\ UNCHANGED <<cfg, opts, job, warehouse, sources, parallel, futures, batch,
                 bpc, dr, lin, th, trav>>

ProviderName(x) == x.providers_to_try[x.next]

\* if provider_name not in self.providers: continue
SkipProvider ==
  /\ wr.pc = "loop" /\ wr.next <= Len(wr.providers_to_try)
  /\ ProviderName(wr) \notin wr.providers
  /\ MultiStep([wr EXCEPT !.next = @ + 1])

\* provider.extract_schema raises: the except clause continues the loop
ProviderFails ==
  /\ wr.pc = "loop" /\ wr.next <= Len(wr.providers_to_try)
  /\ ProviderName(wr) \in wr.providers
  /\ MultiStep([wr EXCEPT !.next = @ + 1,
                          !.invoked = Append(@, ProviderName(wr))])

\* provider.extract_schema returns: the result is tagged and returned
ProviderSucceeds ==
  /\ wr.pc = "loop" /\ wr.next <= Len(wr.providers_to_try)
  /\ ProviderName(wr) \in wr.providers
  /\ \E snapshot \in Snapshots :
       MultiStep([wr EXCEPT !.pc = "returned",
                           !.invoked = Append(@, ProviderName(wr)),
                           !.result = snapshot,
                           !.extracted_by = ProviderName(wr)])

\* the loop is over: return None
AllProvidersFailed ==
  /\ wr.pc = "loop" /\ wr.next > Len(wr.providers_to_try)
  /\ MultiStep([wr EXCEPT !.pc = "returned"])

NextMulti ==
  \/ SkipProvider
  \/ ProviderFails
  \/ ProviderSucceeds
  \/ AllProvidersFailed

SpecMulti == InitMulti /\ [][NextMulti]_vars

\* ------------------------------ SpecWriter: SnowflakeClient.write_comments
\* the table (c = 0) or the column c of the t-th table of the snapshot
Item(t, c) == [t |-> t, c |-> c]

\* what the warehouse answers to an existence check
Existence == {"yes", "no", "raise"}

\* result = {"success": True, "tables_updated": 0, ...} plus the position of
\* the call; log is the sequence of items the loop has processed
NewWrite(dry, nT, nC) ==
  [ pc |-> "connect", dry_run |-> dry, nT |-> nT, nC |-> nC, t |-> 0, c |-> 0,
    attempts |-> 1, success |-> TRUE, error |-> FALSE, tables_updated |-> 0,
    columns_updated |-> 0, errors |-> <<>>, skipped |-> <<>>, log |-> <<>> ]

Logged(w, item, outcome) ==
  [w EXCEPT !.log = Append(@, [item |-> item, outcome |-> outcome])]

\* for table in schema.get("tables", []): the next table, or the commit
NextTable(w) ==
  IF w.t + 1 <= w.nT THEN [w EXCEPT !.pc = "table", !.t = w.t + 1, !.c = 0]
  ELSE [w EXCEPT !.pc = "commit"]

\* for column in table.get("columns", []): the next column, or the next table
NextColumn(w) ==
  IF w.c + 1 <= w.nC THEN [w EXCEPT !.pc = "column", !.c = w.c + 1]
  ELSE NextTable(w)

\* except Exception as e: result["success"] = False; result["error"] = str(e)
\* then finally: cursor.close() and return result
Abort(w) == [w EXCEPT !.success = FALSE, !.error = TRUE, !.pc = "done"]

\* conn = self._get_connection() is outside the try block: tenacity calls
\* write_comments again, and re-raises after WriteAttempts calls
Connect(w, ok) ==
  IF ok THEN NextTable(w)
  ELSE IF w.attempts < WriteAttempts THEN [w EXCEPT !.attempts = @ + 1]
  ELSE [w EXCEPT !.pc = "raised"]

\* an absent table reported in errors, its columns still processed
WriteTable_AbsentIsError(w, exists, desc, execOk) ==
  LET item == Item(w.t, 0) IN
  IF exists = "raise" THEN Abort(Logged(w, item, "check_raise"))
  ELSE IF exists = "no"
    THEN NextColumn([Logged(w, item, "absent") EXCEPT !.errors = Append(@, item)])
  ELSE IF ~desc THEN NextColumn(Logged(w, item, "no_desc"))
  ELSE IF w.dry_run THEN NextColumn(Logged(w, item, "would_write"))
  ELSE IF execOk
    THEN NextColumn([Logged(w, item, "written") EXCEPT !.tables_updated = @ + 1])
  ELSE NextColumn([Logged(w, item, "write_failed") EXCEPT !.errors = Append(@, item)])

\* one table of the loop: existence check, then the table comment
WriteTable(w, exists, desc, execOk) ==
  LET item == Item(w.t, 0) IN
  IF exists = "raise" THEN Abort(Logged(w, item, "check_raise"))
  ELSE IF exists = "no"
    THEN NextTable([Logged(w, item, "absent") EXCEPT !.skipped = Append(@, item)])
  ELSE IF ~desc THEN NextColumn(Logged(w, item, "no_desc"))
  ELSE IF w.dry_run THEN NextColumn(Logged(w, item, "would_write"))
  ELSE IF execOk
    THEN NextColumn([Logged(w, item, "written") EXCEPT !.tables_updated = @ + 1])
  ELSE NextColumn([Logged(w, item, "write_failed") EXCEPT !.errors = Append(@, item)])

\* one column of the inner loop: description, existence check, comment
WriteColumn(w, desc, exists, execOk) ==
  LET item == Item(w.t, w.c) IN
  IF ~desc THEN NextColumn(Logged(w, item, "no_desc"))
  ELSE IF exists = "raise" THEN Abort(Logged(w, item, "check_raise"))
  ELSE IF exists = "no"
    THEN NextColumn([Logged(w, item, "absent") EXCEPT !.skipped = Append(@, item)])
  ELSE IF w.dry_run THEN NextColumn(Logged(w, item, "would_write"))
  ELSE IF execOk
    THEN NextColumn([Logged(w, item, "written") EXCEPT !.columns_updated = @ + 1])
  ELSE NextColumn([Logged(w, item, "write_failed") EXCEPT !.errors = Append(@, item)])

\* if not self.dry_run: conn.commit()
Commit(w, ok) ==
  IF w.dry_run \/ ok THEN [w EXCEPT !.pc = "done"] ELSE Abort(w)

InitWriter ==
  /\ \E dry \in BOOLEAN, nT \in 0..MaxWriteTables, nC \in 0..MaxWriteColumns :
       wr = NewWrite(dry, nT, nC)
  /\ cfg = Unused /\ opts = Unused /\ job = Unused /\ warehouse = 0
  /\ sources = Unused /\ parallel = Unused /\ futures = Unused
  /\ batch = Unused /\ bpc = Unused
  /\ lin = Unused /\ th = Unused /\ trav = Unused /\ dr = Unused

WriterStep(w) ==
  /\ wr' = w
  /\ UNCHANGED <<cfg, opts, job, warehouse, sources, parallel, futures, batch,
                 bpc, dr, lin, th, trav>>

WConnect ==
  /\ wr.pc = "connect"
  /\ \E ok \in BOOLEAN : WriterStep(Connect(wr, ok))

WTable ==
  /\ wr.pc = "table"
  /\ \E exists \in Existence, desc \in BOOLEAN, execOk \in BOOLEAN :
       WriterStep(WriteTable(wr, exists, desc, execOk))

WColumn ==
  /\ wr.pc = "column"
  /\ \E desc \in BOOLEAN, exists \in Existence, execOk \in BOOLEAN :
       WriterStep(WriteColumn(wr, desc, exists, execOk))

WCommit ==
  /\ wr.pc = "commit"
  /\ \E ok \in BOOLEAN : WriterStep(Commit(wr, ok))

NextWriter ==
  \/ WConnect
  \/ WTable
  \/ WColumn
  \/ WCommit

SpecWriter == InitWriter /\ [][NextWriter]_vars

\* --------------------------------------------------- the LineageTracker
\* str.upper() on the names the model uses
Upper(s) ==
  CASE s = "orders" -> "ORDERS"
    [] s = "id" -> "ID"
    [] s = "table" -> "TABLE"
    [] s = "column" -> "COLUMN"
    [] s = "customers" -> "CUSTOMERS"
    [] s = "email" -> "EMAIL"
    [] s = "varchar" -> "VARCHAR"
    [] OTHER -> s

None == "None"

\* node ids: f"table:{database}.{schema}.{table_name}".upper(),
\* f"column:...{table_name}.{column_name}".upper(), f"doc:{type}:{id}",
\* f"transform:{type}:{name}"
\* the table id built from the name as it was written
TableId_AsWritten(table_name) == <<Upper("table"), table_name, "">>

TableId(table_name) == <<Upper("table"), Upper(table_name), "">>
ColumnId(table_name, column_name) ==
  <<Upper("column"), Upper(table_name), Upper(column_name)>>
DocId(source_type, source_id) == <<"doc", source_type, source_id>>
TransformId(transformation_type, name) == <<"transform", transformation_type, name>>

\* LineageNode(id, type, name, metadata)
LineageNode(id, type, name, metadata) ==
  [id |-> id, type |-> type, name |-> name, metadata |-> metadata]

\* LineageEdge(source_id, target_id, relationship, metadata); metadata or {}
LineageEdge(source_id, target_id, relationship, metadata) ==
  [ source_id |-> source_id, target_id |-> target_id,
    relationship |-> relationship,
    metadata |-> IF metadata \in {None, "{}"} THEN "{}" ELSE metadata ]

\* one of the two JSON files: not there, just truncated, dumped, or the bytes
\* of two dumps mixed; size is the number of entries dumped
NoFile == [state |-> "absent", size |-> 0, data |-> <<>>]
Truncated == [state |-> "empty", size |-> 0, data |-> <<>>]
Dumped(data, size) == [state |-> "ok", size |-> size, data |-> data]
Mixed(size) == [state |-> "garbled", size |-> size, data |-> <<>>]

\* LineageTracker.__init__ on a fresh storage path
NewTracker ==
  [ nodes |-> <<>>, edges |-> <<>>, nodes_file |-> NoFile, edges_file |-> NoFile,
    calls |-> <<>> ]

\* self.nodes[node_id] = node keeping what the old node had besides its name
SetNode_Merge(nodes, node) ==
  [k \in (DOMAIN nodes) \cup {node.id} |->
     IF k # node.id THEN nodes[k]
     ELSE IF k \in DOMAIN nodes THEN [nodes[k] EXCEPT !.name = node.name]
     ELSE node]

\* self.nodes[node_id] = node
SetNode(nodes, node) ==
  [k \in (DOMAIN nodes) \cup {node.id} |-> IF k = node.id THEN node ELSE nodes[k]]

\* for edge in self.edges: if edge.source_id == ... and edge.target_id == ...
EdgeExists(edges, source_id, target_id) ==
  \E k \in 1..Len(edges) :
    edges[k].source_id = source_id /\ edges[k].target_id = target_id

\* the existence check comparing the relationship too
EdgeExists_ByLabel(edges, source_id, target_id, relationship) ==
  \E k \in 1..Len(edges) :
    /\ edges[k].source_id = source_id /\ edges[k].target_id = target_id
    /\ edges[k].relationship = relationship

\* json.dump of a value of a metadata dict: None becomes null, a string a
\* JSON string
Json(v) == IF v = None THEN <<"null", "">> ELSE <<"string", v>>

\* json.load of such a value
Parsed(j) == IF j[1] = "null" THEN None ELSE j[2]

\* {k: asdict(v) for k, v in self.nodes.items()} as json.dump writes it
NodesJson(nodes) ==
  [k \in DOMAIN nodes |->
     [nodes[k] EXCEPT !.metadata = <<Json(@[1]), Json(@[2])>>]]

\* [asdict(e) for e in self.edges] as json.dump writes it
EdgesJson(edges) ==
  [k \in 1..Len(edges) |-> [edges[k] EXCEPT !.metadata = <<"object", @>>]]

\* _load: a tracker constructed on the storage g has written; a file that is
\* not there leaves the collection empty, a file that is not a JSON document
\* makes json.load raise
_load(g) ==
  [ raised |-> \/ g.nodes_file.state \in {"empty", "garbled"}
               \/ g.edges_file.state \in {"empty", "garbled"},
    nodes |-> IF g.nodes_file.state # "ok" THEN <<>>
              ELSE [k \in DOMAIN g.nodes_file.data |->
                      [g.nodes_file.data[k] EXCEPT
                         !.metadata = <<Parsed(@[1]), Parsed(@[2])>>]],
    edges |-> IF g.edges_file.state # "ok" THEN <<>>
              ELSE [k \in 1..Len(g.edges_file.data) |->
                      [g.edges_file.data[k] EXCEPT !.metadata = @[2]]] ]

\* _save rewriting the node map only
_save_NodesOnly(g) ==
  [g EXCEPT !.nodes_file = Dumped(NodesJson(g.nodes), Cardinality(DOMAIN g.nodes))]

\* _save with nothing else running: both files rewritten in full
_save(g) ==
  [g EXCEPT !.nodes_file = Dumped(NodesJson(g.nodes), Cardinality(DOMAIN g.nodes)),
            !.edges_file = Dumped(EdgesJson(g.edges), Len(g.edges))]

\* the call is noted (calls is the sequence of mutating calls made so far)
Noted(g, op, id, target, label, metadata) ==
  [g EXCEPT !.calls = Append(@, [op |-> op, id |-> id, target |-> target,
                                 label |-> label, metadata |-> metadata])]

\* add_edge appending when no edge has the same pair and relationship
add_edge_ByLabel(g, source_id, target_id, relationship, metadata) ==
  LET n == Noted(g, "edge", source_id, target_id, relationship,
                 LineageEdge(source_id, target_id, relationship, metadata).metadata) IN
  IF EdgeExists_ByLabel(g.edges, source_id, target_id, relationship) THEN n
  ELSE _save([n EXCEPT !.edges =
                Append(@, LineageEdge(source_id, target_id, relationship, metadata))])

add_edge(g, source_id, target_id, relationship, metadata) ==
  LET n == Noted(g, "edge", source_id, target_id, relationship,
                 LineageEdge(source_id, target_id, relationship, metadata).metadata) IN
  IF EdgeExists(g.edges, source_id, target_id) THEN n
  ELSE _save([n EXCEPT !.edges =
                Append(@, LineageEdge(source_id, target_id, relationship, metadata))])

\* the node is put in the map and the call noted
Put(g, node) ==
  [Noted(g, "node", node.id, node.id, node.name, node.metadata)
     EXCEPT !.nodes = SetNode(g.nodes, node)]

add_table(g, table_name, owner, description) ==
  _save(Put(g, LineageNode(TableId(table_name), "table", Upper(table_name),
                           <<owner, description>>)))

add_column(g, table_name, column_name, data_type) ==
  LET node == LineageNode(ColumnId(table_name, column_name), "column",
                          Upper(column_name), <<Upper(table_name), data_type>>) IN
  _save(add_edge(Put(g, node), node.id, TableId(table_name), "belongs_to", None))

add_document(g, source_type, source_id, title, url) ==
  _save(Put(g, LineageNode(DocId(source_type, source_id), "document", title,
                           <<source_id, url>>)))

add_transformation(g, name, transformation_type, file_path) ==
  _save(Put(g, LineageNode(TransformId(transformation_type, name),
                           "transformation", name,
                           <<transformation_type, file_path>>)))

link_table_to_document(g, table_name, source_type, source_id) ==
  add_edge(g, TableId(table_name), DocId(source_type, source_id),
           "documented_in", None)

\* ---------------------------- SpecGraph: sequential calls of the tracker
TableNames == {"orders", "ORDERS"}
ColumnNames == {"id", "ID"}
Owners == {None, "team_a"}
DataTypes == {None, "NUMBER"}
SourceIds == {"1", "2"}
Titles == {"Orders v1", "Orders v2"}
FilePaths == {None, "models/stg_orders.sql"}
Relationships == {"documented_in", "references"}
EdgeMetadata == {None, "m1"}
EdgeIds == {TableId("orders"), DocId("confluence", "1"), ColumnId("orders", "id")}

InitGraph ==
  /\ lin = NewTracker
  /\ cfg = Unused /\ opts = Unused /\ job = Unused /\ warehouse = 0
  /\ sources = Unused /\ parallel = Unused /\ futures = Unused
  /\ batch = Unused /\ bpc = Unused
  /\ wr = Unused /\ th = Unused /\ trav = Unused /\ dr = Unused

\* the tracker becomes g; no more than MaxCalls calls are explored
GraphStep(g) ==
  /\ Len(lin.calls) < MaxCalls
  /\ lin' = g
  /\ UNCHANGED <<cfg, opts, job, warehouse, sources, parallel, futures, batch,
                 bpc, dr, wr, th, trav>>

AddTable ==
  \E n \in TableNames, o \in Owners : GraphStep(add_table(lin, n, o, None))

AddColumn ==
  \E c \in ColumnNames, d \in DataTypes : GraphStep(add_column(lin, "orders", c, d))

AddDocument ==
  \E i \in SourceIds, t \in Titles :
    GraphStep(add_document(lin, "confluence", i, t, None))

AddTransformation ==
  \E f \in FilePaths : GraphStep(add_transformation(lin, "stg_orders", "dbt", f))

AddEdge ==
  \E a \in EdgeIds, b \in EdgeIds, r \in Relationships, m \in EdgeMetadata :
    GraphStep(add_edge(lin, a, b, r, m))

LinkTableToDocument ==
  \E n \in TableNames, i \in SourceIds :
    GraphStep(link_table_to_document(lin, n, "confluence", i))

NextGraph ==
  \/ AddTable
  \/ AddColumn
  \/ AddDocument
  \/ AddTransformation
  \/ AddEdge
  \/ LinkTableToDocument

SpecGraph == InitGraph /\ [][NextGraph]_vars

\* ------------------- SpecResync: the lineage step of jobs run in sequence
\* the table names a snapshot can hold, in two spellings each
SyncTableNames == {"orders", "ORDERS", "customers", "CUSTOMERS"}

\* schema["tables"] of a job, by table_name
SyncTables == UNION { [1..n -> SyncTableNames] : n \in 0..MaxSyncTables }

\* a job: the page it syncs, the page's title and the tables extracted
SyncJobs == [source_id : SourceIds, title : Titles, tables : SyncTables]

\* the lineage step of sync_confluence_page: add_document, then add_table and
\* link_table_to_document for every table of the snapshot
TrackLineage(g, j) ==
  LET After[k \in 0..Len(j.tables)] ==
        IF k = 0 THEN add_document(g, "confluence", j.source_id, j.title, None)
        ELSE link_table_to_document(
               add_table(After[k - 1], j.tables[k], None, None),
               j.tables[k], "confluence", j.source_id) IN
  After[Len(j.tables)]

\* th is the list of the jobs run so far
InitResync ==
  /\ lin = NewTracker
  /\ th = <<>>
  /\ cfg = Unused /\ opts = Unused /\ job = Unused /\ warehouse = 0
  /\ sources = Unused /\ parallel = Unused /\ futures = Unused
  /\ batch = Unused /\ bpc = Unused
  /\ wr = Unused /\ trav = Unused /\ dr = Unused

\* one more job runs its lineage step
TrackJob ==
  /\ Len(th) < MaxSyncs
  /\ \E j \in SyncJobs :
       /\ lin' = TrackLineage(lin, j)
       /\ th' = Append(th, j)
  /\ UNCHANGED <<cfg, opts, job, warehouse, sources, parallel, futures, batch,
                 bpc, dr, wr, trav>>

NextResync == TrackJob

SpecResync == InitResync /\ [][NextResync]_vars

\* ------------------- SpecTraverse: one get_upstream / get_downstream call
\* node ids are 1..NumNodes; an edge is <<source_id, target_id>>
NodeIds == 1..NumNodes

\* edge lists as add_edge builds them: no ordered pair twice
EdgeLists ==
  { e \in UNION { [1..n -> NodeIds \X NodeIds] : n \in 0..MaxEdges } :
      \A i \in 1..Len(e), j \in 1..Len(e) : e[i] = e[j] => i = j }

\* get_downstream follows an edge from its source_id to its target_id,
\* get_upstream from its target_id to its source_id
Near(edge, dir) == IF dir = "down" THEN edge[1] ELSE edge[2]
Far(edge, dir) == IF dir = "down" THEN edge[2] ELSE edge[1]

\* the depth argument of a call: given with a value, or left to its default
DepthArgs ==
  {[given |-> FALSE, value |-> 0]}
    \cup {[given |-> TRUE, value |-> d] : d \in (0 - 1)..MaxDepth}

\* depth: int = 3
Depth(arg) == IF arg.given THEN arg.value ELSE DefaultDepth

\* the call get_upstream / get_downstream(node_id, depth) on a graph whose
\* node map has the keys in nodes; stack holds the active calls of traverse,
\* each with the index of the next edge its loop will look at
NewTraversal(dir, nodes, edges, node_id, arg) ==
  [ pc |-> "call", dir |-> dir, nodes |-> nodes, edges |-> edges,
    node_id |-> node_id, depth |-> Depth(arg), given |-> arg.given,
    visited |-> {}, result |-> <<>>, stack |-> <<>> ]

Frame(current_id, current_depth) ==
  [current_id |-> current_id, current_depth |-> current_depth, next |-> 1]

Top(t) == t.stack[Len(t.stack)]

\* traverse returning one level too late
Returns_DepthOff(t, current_id, current_depth) ==
  current_depth > t.depth + 1 \/ current_id \in t.visited

\* traverse returning at once on the depth bound only
Returns_DepthOnly(t, current_id, current_depth) == current_depth > t.depth

\* traverse(current_id, current_depth) returns at once
Returns(t, current_id, current_depth) ==
  current_depth > t.depth \/ current_id \in t.visited

\* traverse entered: visited.add(current_id), the loop starts
Enter(t, current_id, current_depth) ==
  [t EXCEPT !.visited = @ \cup {current_id},
            !.stack = Append(@, Frame(current_id, current_depth))]

\* the edges the loop of the top call still reports: they leave current_id
\* and their other end is in self.nodes
Pending(t) ==
  { i \in Top(t).next..Len(t.edges) :
      /\ Near(t.edges[i], t.dir) = Top(t).current_id
      /\ Far(t.edges[i], t.dir) \in t.nodes }

\* traverse(node_id, 1)
TraverseCall(t) ==
  IF Returns(t, t.node_id, 1) THEN [t EXCEPT !.pc = "done"]
  ELSE [Enter(t, t.node_id, 1) EXCEPT !.pc = "running"]

\* the loop reaches its next edge to report: result.append(...), then
\* traverse(other end, current_depth + 1)
TraverseEdge(t) ==
  LET i == CHOOSE k \in Pending(t) : \A j \in Pending(t) : k <= j
      f == Top(t)
      id == Far(t.edges[i], t.dir)
      reported == [t EXCEPT !.result = Append(@, [id |-> id, depth |-> f.current_depth]),
                            !.stack[Len(t.stack)].next = i + 1] IN
  IF Returns(reported, id, f.current_depth + 1) THEN reported
  ELSE Enter(reported, id, f.current_depth + 1)

\* the loop of the top call is over: the call returns
TraverseReturn(t) ==
  LET popped == [t EXCEPT !.stack = SubSeq(@, 1, Len(@) - 1)] IN
  IF Len(t.stack) = 1 THEN [popped EXCEPT !.pc = "done"] ELSE popped

InitTraverse ==
  /\ \E dir \in {"up", "down"}, nodes \in SUBSET NodeIds, edges \in EdgeLists,
        arg \in DepthArgs :
       trav = NewTraversal(dir, nodes, edges, 1, arg)
  /\ cfg = Unused /\ opts = Unused /\ job = Unused /\ warehouse = 0
  /\ sources = Unused /\ parallel = Unused /\ futures = Unused
  /\ batch = Unused /\ bpc = Unused
  /\ wr = Unused /\ lin = Unused /\ th = Unused /\ dr = Unused

TraverseStep(t) ==
  /\ trav' = t
  /\ UNCHANGED <<cfg, opts, job, warehouse, sources, parallel, futures, batch,
                 bpc, dr, wr, lin, th>>

TCall ==
  /\ trav.pc = "call"
  /\ TraverseStep(TraverseCall(trav))

TEdge ==
  /\ trav.pc = "running"
  /\ Pending(trav) # {}
  /\ TraverseStep(TraverseEdge(trav))

TReturn ==
  /\ trav.pc = "running"
  /\ Pending(trav) = {}
  /\ TraverseStep(TraverseReturn(trav))

NextTraverse ==
  \/ TCall
  \/ TEdge
  \/ TReturn

SpecTraverse == InitTraverse /\ [][NextTraverse]_vars

\* the calling thread keeps running
SpecTraverseFair == SpecTraverse /\ WF_vars(NextTraverse)

\* ------------- SpecReach: traversals of graphs with two routes to a node
\* the edges of a lineage in which node 3 is fed by node 1 both directly and
\* through node 2, and feeds node 5 through node 4
RouteEdges == { <<1, 2>>, <<2, 3>>, <<1, 3>>, <<3, 4>>, <<4, 5>> }

RouteNodes == { e[1] : e \in RouteEdges } \cup { e[2] : e \in RouteEdges }

\* every edge list add_edge can have built from some of these edges, in
\* every order of the calls
RouteLists ==
  { e \in UNION { [1..n -> RouteEdges] : n \in 0..Cardinality(RouteEdges) } :
      \A i \in 1..Len(e), j \in 1..Len(e) : e[i] = e[j] => i = j }

\* the bounds a caller gives, or the default
RouteDepths ==
  {[given |-> FALSE, value |-> 0]}
    \cup {[given |-> TRUE, value |-> d] : d \in 1..Cardinality(RouteEdges)}

\* get_downstream of the first node, get_upstream of the last
InitReach ==
  /\ \E nodes \in SUBSET RouteNodes, edges \in RouteLists, arg \in RouteDepths :
       \/ trav = NewTraversal("down", nodes, edges, 1, arg)
       \/ trav = NewTraversal("up", nodes, edges, 5, arg)
  /\ cfg = Unused /\ opts = Unused /\ job = Unused /\ warehouse = 0
  /\ sources = Unused /\ parallel = Unused /\ futures = Unused
  /\ batch = Unused /\ bpc = Unused
  /\ wr = Unused /\ lin = Unused /\ th = Unused /\ dr = Unused

SpecReach == InitReach /\ [][NextTraverse]_vars

\* ----------------------------------- queries on the graph of the tracker
\* a traversal run from its call to its return
RECURSIVE RunTraverse(_)
RunTraverse(t) ==
  IF t.pc = "done" THEN t
  ELSE IF t.pc = "call" THEN RunTraverse(TraverseCall(t))
  ELSE IF Pending(t) # {} THEN RunTraverse(TraverseEdge(t))
  ELSE RunTraverse(TraverseReturn(t))

\* self.edges as the pairs a traversal follows
EdgePairs(g) == [k \in 1..Len(g.edges) |-> <<g.edges[k].source_id, g.edges[k].target_id>>]

\* get_downstream(node_id, depth) on the graph g: entries in result order,
\* each with the type of its node
get_downstream(g, node_id, arg) ==
  LET r == RunTraverse(NewTraversal("down", DOMAIN g.nodes, EdgePairs(g),
                                    node_id, arg)).result IN
  [k \in 1..Len(r) |-> [id |-> r[k].id, type |-> g.nodes[r[k].id].type,
                        depth |-> r[k].depth]]

get_upstream(g, node_id, arg) ==
  LET r == RunTraverse(NewTraversal("up", DOMAIN g.nodes, EdgePairs(g),
                                    node_id, arg)).result IN
  [k \in 1..Len(r) |-> [id |-> r[k].id, type |-> g.nodes[r[k].id].type,
                        depth |-> r[k].depth]]

\* [d for d in downstream if d["type"] == type]
OfType(downstream, type) ==
  LET Is(d) == d.type = type IN SelectSeq(downstream, Is)

\* impact_analysis(table_name)
impact_analysis(g, table_name) ==
  LET downstream == get_downstream(g, TableId(table_name),
                                   [given |-> FALSE, value |-> 0]) IN
  [ total_impacted |-> Len(downstream),
    impacted_tables |-> OfType(downstream, "table"),
    impacted_transformations |-> OfType(downstream, "transformation"),
    impacted_documents |-> OfType(downstream, "document") ]

\* ------------- SpecLineage: pool threads recording lineage concurrently
\* Each thread is one job inside its lineage step (orchestrator.py:203-221):
\* add_document, then add_table and link_table_to_document for its table.
\* The tracker has no lock: a thread can be preempted between any two of the
\* steps below.
Threads == 1..NumThreads

\* a thread at the start of its lineage step, syncing source source_id
NewThread(source_id) ==
  [pc |-> "add_document", source_id |-> source_id, op |-> "none", seen |-> 0,
   buffer |-> NoFile]

\* where a thread goes on when the _save of its call has returned
AfterSave(t) ==
  CASE t.op = "add_document" -> "add_table"
    [] t.op = "add_table" -> "add_edge"
    [] OTHER -> "finished"

\* f.close() of a file opened with "w": the buffered dump goes to the start
\* of the file; what another handle wrote beyond its length stays
Flush(file, buffer) ==
  IF buffer.state # "ok" THEN file
  ELSE IF file.state \in {"absent", "empty"} \/ buffer.size >= file.size THEN buffer
  ELSE Mixed(file.size)

TheDocument(t) ==
  LineageNode(DocId("confluence", t.source_id), "document", "Orders v1",
              <<t.source_id, None>>)
TheTable == LineageNode(TableId("orders"), "table", Upper("orders"), <<None, None>>)

InitLineage ==
  /\ lin = NewTracker
  /\ th \in [Threads -> {NewThread(i) : i \in SourceIds}]
  /\ cfg = Unused /\ opts = Unused /\ job = Unused /\ warehouse = 0
  /\ sources = Unused /\ parallel = Unused /\ futures = Unused
  /\ batch = Unused /\ bpc = Unused
  /\ wr = Unused /\ trav = Unused /\ dr = Unused

\* thread i becomes t and the tracker g
ThreadStep(i, t, g) ==
  /\ th' = [th EXCEPT ![i] = t]
  /\ lin' = g
  /\ UNCHANGED <<cfg, opts, job, warehouse, sources, parallel, futures, batch,
                 bpc, dr, wr, trav>>

\* add_document: self.nodes[node_id] = LineageNode(...)
PutDocument(i) ==
  /\ th[i].pc = "add_document"
  /\ ThreadStep(i, [th[i] EXCEPT !.pc = "open_nodes", !.op = "add_document"],
                [lin EXCEPT !.nodes = SetNode(@, TheDocument(th[i]))])

\* add_table: self.nodes[node_id] = LineageNode(...)
PutTable(i) ==
  /\ th[i].pc = "add_table"
  /\ ThreadStep(i, [th[i] EXCEPT !.pc = "open_nodes", !.op = "add_table"],
                [lin EXCEPT !.nodes = SetNode(@, TheTable)])

\* add_edge: the loop that looks for the pair
CheckEdge(i) ==
  /\ th[i].pc = "add_edge"
  /\ ThreadStep(i,
       [th[i] EXCEPT !.op = "add_edge",
          !.pc = IF EdgeExists(lin.edges, TableId("orders"),
                               DocId("confluence", th[i].source_id))
                   THEN "finished" ELSE "append_edge"],
       lin)

\* add_edge: self.edges.append(LineageEdge(...))
AppendEdge(i) ==
  /\ th[i].pc = "append_edge"
  /\ ThreadStep(i, [th[i] EXCEPT !.pc = "open_nodes"],
       [lin EXCEPT !.edges =
          Append(@, LineageEdge(TableId("orders"),
                                DocId("confluence", th[i].source_id),
                                "documented_in", None))])

\* _save: open(self.nodes_file, "w") truncates the file
OpenNodes(i) ==
  /\ th[i].pc = "open_nodes"
  /\ ThreadStep(i, [th[i] EXCEPT !.pc = "dump_nodes", !.buffer = Truncated],
                [lin EXCEPT !.nodes_file = Truncated])

\* _save: the comprehension over self.nodes.items() starts
DumpNodes(i) ==
  /\ th[i].pc = "dump_nodes"
  /\ ThreadStep(i, [th[i] EXCEPT !.pc = "dumping_nodes",
                                 !.seen = Cardinality(DOMAIN lin.nodes)],
                lin)

\* _save: the comprehension ends and json.dump fills the buffer; a key
\* inserted by another thread while it iterated raises RuntimeError
\* (dictionary changed size during iteration), which leaves add_*
DumpedNodes(i) ==
  /\ th[i].pc = "dumping_nodes"
  /\ IF Cardinality(DOMAIN lin.nodes) # th[i].seen
       THEN ThreadStep(i, [th[i] EXCEPT !.pc = "raised"], lin)
       ELSE ThreadStep(i,
              [th[i] EXCEPT !.pc = "close_nodes",
                 !.buffer = Dumped(NodesJson(lin.nodes), Cardinality(DOMAIN lin.nodes))],
              lin)

\* _save: the end of the first with block
CloseNodes(i) ==
  /\ th[i].pc = "close_nodes"
  /\ ThreadStep(i, [th[i] EXCEPT !.pc = "open_edges", !.buffer = NoFile],
                [lin EXCEPT !.nodes_file = Flush(@, th[i].buffer)])

\* _save: open(self.edges_file, "w")
OpenEdges(i) ==
  /\ th[i].pc = "open_edges"
  /\ ThreadStep(i, [th[i] EXCEPT !.pc = "dump_edges", !.buffer = Truncated],
                [lin EXCEPT !.edges_file = Truncated])

\* _save: json.dump([asdict(e) for e in self.edges], f)
DumpEdges(i) ==
  /\ th[i].pc = "dump_edges"
  /\ ThreadStep(i, [th[i] EXCEPT !.pc = "close_edges",
                                 !.buffer = Dumped(EdgesJson(lin.edges), Len(lin.edges))],
                lin)

\* _save: the end of the second with block; the call returns
CloseEdges(i) ==
  /\ th[i].pc = "close_edges"
  /\ ThreadStep(i, [th[i] EXCEPT !.pc = AfterSave(th[i]), !.buffer = NoFile],
                [lin EXCEPT !.edges_file = Flush(@, th[i].buffer)])

NextLineage ==
  \E i \in Threads :
    \/ PutDocument(i)
    \/ PutTable(i)
    \/ CheckEdge(i)
    \/ AppendEdge(i)
    \/ OpenNodes(i)
    \/ DumpNodes(i)
    \/ DumpedNodes(i)
    \/ CloseNodes(i)
    \/ OpenEdges(i)
    \/ DumpEdges(i)
    \/ CloseEdges(i)

SpecLineage == InitLineage /\ [][NextLineage]_vars

\* ------------------------ SpecDrift: SchemaDriftDetector.compare
\* A schema snapshot is the dict the extractor or get_existing_schema returns:
\* a "tables" list of tables, each with a table_name and a "columns" list of
\* columns, each with a column_name, a data_type and a nullable flag. A key
\* that is not in its dict is Absent (a data_type of None counts as absent:
\* the code reads it with `or ""`). Table names are unique after upper-casing
\* and so are the column names of a table (the data model's invariant).
Absent == "absent"

\* the i-th table name and the j-th column name of the explored snapshots
DriftTableName(i) ==
  CASE i = 1 -> "customers" [] i = 2 -> "ORDERS" [] i = 3 -> "USERS" [] OTHER -> "EVENTS"
DriftColumnName(j) ==
  CASE j = 1 -> "id" [] j = 2 -> "email" [] j = 3 -> "NAME" [] OTHER -> "PHONE"

\* the data type and nullable flag a column can come with: every data type
\* without a flag, and flags on two of the types
ColumnAttributes ==
  { <<t, Absent>> : t \in {Absent, "varchar", "STRING", "INTEGER"} }
    \cup { <<"varchar", "True">>, <<"varchar", "False">>, <<"INTEGER", "False">> }

SchemaColumn(column_name, data_type, nullable) ==
  [column_name |-> column_name, data_type |-> data_type, nullable |-> nullable]

\* what a columns list can hold for the j-th column: nothing, or the column;
\* the first column varies in data type and nullable flag, the second in the
\* case of its name and in its data type
ColumnSlot(j) ==
  {<<>>} \cup
    (CASE j = 1 -> { <<SchemaColumn(DriftColumnName(1), a[1], a[2])>> :
                       a \in ColumnAttributes }
       [] j = 2 -> { <<SchemaColumn(c, "varchar", "True")>> :
                       c \in {DriftColumnName(2), Upper(DriftColumnName(2))} }
                   \cup { <<SchemaColumn(DriftColumnName(2), "INTEGER", "True")>> }
       [] OTHER -> { <<SchemaColumn(DriftColumnName(j), "STRING", Absent)>> })

RECURSIVE ColumnLists(_)
ColumnLists(j) ==
  IF j = 0 THEN {<<>>}
  ELSE { l \o c : l \in ColumnLists(j - 1), c \in ColumnSlot(j) }

SchemaTable(table_name, has_columns, columns) ==
  [table_name |-> table_name, has_columns |-> has_columns, columns |-> columns]

\* what a tables list can hold for the i-th table: the first table varies in
\* the case of its name and in its columns, the others have no columns key
TableSlot(i) ==
  {<<>>} \cup
    (IF i = 1
       THEN { <<SchemaTable(n, TRUE, l)>> :
                n \in {DriftTableName(1), Upper(DriftTableName(1))},
                l \in ColumnLists(MaxDriftColumns) }
            \cup { <<SchemaTable(n, FALSE, <<>>)>> :
                     n \in {DriftTableName(1), Upper(DriftTableName(1))} }
       ELSE { <<SchemaTable(DriftTableName(i), FALSE, <<>>)>> })

RECURSIVE TableLists(_)
TableLists(i) ==
  IF i = 0 THEN {<<>>}
  ELSE { l \o t : l \in TableLists(i - 1), t \in TableSlot(i) }

Snapshot(has_tables, tables) == [has_tables |-> has_tables, tables |-> tables]

SchemaSnapshots ==
  {Snapshot(FALSE, <<>>)} \cup { Snapshot(TRUE, l) : l \in TableLists(MaxDriftTables) }

\* the place of a name among the names explored
NameRank(name) ==
  CHOOSE i \in 1..(MaxDriftTables + MaxDriftColumns + 4) :
    \/ Upper(DriftTableName(i)) = Upper(name)
    \/ Upper(DriftColumnName(i)) = Upper(name)

\* the order in which a for loop goes through a set of names: Python fixes
\* none, the two orders by rank stand for the orders a run can take
SetOrders == {"ascending", "descending"}

RECURSIVE Iterate(_, _)
Iterate(names, order) ==
  IF names = {} THEN <<>>
  ELSE LET n == CHOOSE x \in names :
                  \A y \in names :
                    IF order = "ascending" THEN NameRank(x) <= NameRank(y)
                    ELSE NameRank(x) >= NameRank(y) IN
       <<n>> \o Iterate(names \ {n}, order)

\* DriftIssue(drift_type, severity, table_name, column_name, expected_value,
\* actual_value)
DriftIssue(drift_type, severity, table_name, column_name, expected_value, actual_value) ==
  [ drift_type |-> drift_type, severity |-> severity, table_name |-> table_name,
    column_name |-> column_name, expected_value |-> expected_value,
    actual_value |-> actual_value ]

\* {t["table_name"].upper() for t in schema.get("tables", [])}
TableNamesOf(schema) ==
  { Upper(schema.tables[k].table_name) : k \in 1..Len(schema.tables) }

\* next((t for t in schema["tables"] if t["table_name"].upper() == name), None)
TableNamed(schema, name) ==
  schema.tables[CHOOSE k \in 1..Len(schema.tables) :
                  /\ Upper(schema.tables[k].table_name) = name
                  /\ \A j \in 1..(k - 1) : Upper(schema.tables[j].table_name) # name]

\* the columns compared by name without upper-casing: ColumnsOf keyed by the
\* names as written
ColumnsOf_AsWritten(table) ==
  [ n \in { table.columns[k].column_name : k \in 1..Len(table.columns) } |->
      table.columns[CHOOSE k \in 1..Len(table.columns) :
                      table.columns[k].column_name = n] ]

\* {c["column_name"].upper(): c for c in table.get("columns", [])}: of two
\* columns with one name the later one stays
ColumnsOf(table) ==
  [ n \in { Upper(table.columns[k].column_name) : k \in 1..Len(table.columns) } |->
      table.columns[CHOOSE k \in 1..Len(table.columns) :
                      /\ Upper(table.columns[k].column_name) = n
                      /\ \A j \in (k + 1)..Len(table.columns) :
                           Upper(table.columns[j].column_name) # n] ]

\* (col.get("data_type") or "").upper()
TypeOf(col) == IF col.data_type = Absent THEN "" ELSE Upper(col.data_type)

\* col.get("nullable", True)
NullableOf(col) == IF col.nullable = Absent THEN "True" ELSE col.nullable

type_groups ==
  { {"VARCHAR", "STRING", "TEXT", "CHAR", "CHARACTER"},
    {"INT", "INTEGER", "BIGINT", "SMALLINT", "NUMBER"},
    {"FLOAT", "DOUBLE", "REAL", "DECIMAL", "NUMERIC"},
    {"BOOL", "BOOLEAN"},
    {"DATE", "DATETIME", "TIMESTAMP", "TIMESTAMP_NTZ", "TIMESTAMP_LTZ"} }

\* _types_compatible comparing the names only
_types_compatible_Exact(type1, type2) == type1 = type2

_types_compatible(type1, type2) ==
  \/ \E group \in type_groups : type1 \in group /\ type2 \in group
  \/ type1 = type2

\* the checks of one common column reading the live nullable flag without
\* its default
CommonColumnIssues_NoDefault(table_name, col_name, doc_col, actual_col) ==
  LET doc_type == TypeOf(doc_col)
      actual_type == TypeOf(actual_col)
      doc_nullable == NullableOf(doc_col)
      actual_nullable == actual_col.nullable IN
  (IF /\ doc_type # "" /\ actual_type # "" /\ doc_type # actual_type
      /\ ~_types_compatible(doc_type, actual_type)
     THEN <<DriftIssue("type_mismatch", "high", table_name, col_name,
                       doc_type, actual_type)>>
     ELSE <<>>)
  \o
  (IF doc_nullable # actual_nullable
     THEN <<DriftIssue("nullable_mismatch", "medium", table_name, col_name,
                       doc_nullable, actual_nullable)>>
     ELSE <<>>)

\* the issues of one common column: the data type check, then the nullable
\* check
CommonColumnIssues(table_name, col_name, doc_col, actual_col) ==
  LET doc_type == TypeOf(doc_col)
      actual_type == TypeOf(actual_col)
      doc_nullable == NullableOf(doc_col)
      actual_nullable == NullableOf(actual_col) IN
  (IF /\ doc_type # "" /\ actual_type # "" /\ doc_type # actual_type
      /\ ~_types_compatible(doc_type, actual_type)
     THEN <<DriftIssue("type_mismatch", "high", table_name, col_name,
                       doc_type, actual_type)>>
     ELSE <<>>)
  \o
  (IF doc_nullable # actual_nullable
     THEN <<DriftIssue("nullable_mismatch", "medium", table_name, col_name,
                       doc_nullable, actual_nullable)>>
     ELSE <<>>)

RECURSIVE CommonColumnsIssues(_, _, _, _)
CommonColumnsIssues(table_name, names, doc_columns, actual_columns) ==
  IF names = <<>> THEN <<>>
  ELSE CommonColumnIssues(table_name, Head(names), doc_columns[Head(names)],
                          actual_columns[Head(names)])
         \o CommonColumnsIssues(table_name, Tail(names), doc_columns, actual_columns)

\* one issue of the given kind per name, in the order of names
IssuePerName(names, drift_type, severity, table_name) ==
  [ k \in 1..Len(names) |->
      IF table_name = None
        THEN DriftIssue(drift_type, severity, names[k], None, None, None)
        ELSE DriftIssue(drift_type, severity, table_name, names[k], None, None) ]

\* _compare_columns(table_name, doc_table, actual_table)
_compare_columns(table_name, doc_table, actual_table, order) ==
  LET doc_columns == ColumnsOf(doc_table)
      actual_columns == ColumnsOf(actual_table) IN
  IssuePerName(Iterate(DOMAIN doc_columns \ DOMAIN actual_columns, order),
               "column_missing_in_snowflake", "high", table_name)
  \o IssuePerName(Iterate(DOMAIN actual_columns \ DOMAIN doc_columns, order),
                  "column_missing_in_docs", "medium", table_name)
  \o CommonColumnsIssues(table_name,
                         Iterate(DOMAIN doc_columns \cap DOMAIN actual_columns, order),
                         doc_columns, actual_columns)

RECURSIVE CommonTablesIssues(_, _, _, _)
CommonTablesIssues(names, documented_schema, actual_schema, order) ==
  IF names = <<>> THEN <<>>
  ELSE _compare_columns(Head(names), TableNamed(documented_schema, Head(names)),
                        TableNamed(actual_schema, Head(names)), order)
         \o CommonTablesIssues(Tail(names), documented_schema, actual_schema, order)

\* sum(1 for i in report.issues if i.severity == severity)
Severity(issues, severity) ==
  Cardinality({ k \in 1..Len(issues) : issues[k].severity = severity })

\* the totals counting every issue as high
Totals_AllHigh(issues) ==
  [ total_issues |-> Len(issues), high_severity |-> Len(issues),
    medium_severity |-> Severity(issues, "medium"),
    low_severity |-> Severity(issues, "low") ]

\* "Calculate totals"
Totals(issues) ==
  [ total_issues |-> Len(issues), high_severity |-> Severity(issues, "high"),
    medium_severity |-> Severity(issues, "medium"),
    low_severity |-> Severity(issues, "low") ]

\* the comparison skipping the tables only the live schema has
TableIssues_DocOnly(doc_table_names, actual_table_names, order) ==
  IssuePerName(Iterate(doc_table_names \ actual_table_names, order),
               "table_missing_in_snowflake", "high", None)

\* the two loops over the tables only one side has
TableIssues(doc_table_names, actual_table_names, order) ==
  IssuePerName(Iterate(doc_table_names \ actual_table_names, order),
               "table_missing_in_snowflake", "high", None)
  \o IssuePerName(Iterate(actual_table_names \ doc_table_names, order),
                  "table_missing_in_docs", "medium", None)

\* compare(documented_schema) once get_existing_schema has returned
\* actual_schema: the DriftReport
DriftReport(documented_schema, actual_schema, order) ==
  LET doc_table_names == TableNamesOf(documented_schema)
      actual_table_names == TableNamesOf(actual_schema)
      issues ==
        TableIssues(doc_table_names, actual_table_names, order)
        \o CommonTablesIssues(Iterate(doc_table_names \cap actual_table_names, order),
                              documented_schema, actual_schema, order)
      totals == Totals(issues) IN
  [ documented_tables |-> Len(documented_schema.tables),
    snowflake_tables |-> Cardinality(actual_table_names),
    total_issues |-> totals.total_issues,
    high_severity |-> totals.high_severity,
    medium_severity |-> totals.medium_severity,
    low_severity |-> totals.low_severity,
    issues |-> issues ]

\* report = DriftReport()
NewDriftReport ==
  [ documented_tables |-> 0, snowflake_tables |-> 0, total_issues |-> 0,
    high_severity |-> 0, medium_severity |-> 0, low_severity |-> 0,
    issues |-> <<>> ]

\* one call compare(documented): the lookup get_existing_schema answers with
\* the snapshot live or raises; back is the report of the call with the two
\* snapshots in each other's place; default_tables tells that the call had
\* no table list and the SnowflakeClient looked the documented names up
NewComparison(documented, live, lookup_raises) ==
  [ pc |-> "lookup", documented |-> documented, live |-> live,
    lookup_raises |-> lookup_raises, default_tables |-> FALSE,
    report |-> NewDriftReport, back |-> NewDriftReport ]

\* the column dict get_existing_schema builds from a row of
\* INFORMATION_SCHEMA.COLUMNS: "nullable": col[2] == "YES"
ColumnRow(col) ==
  SchemaColumn(col.column_name, col.data_type,
               IF col.nullable = "True" THEN "True" ELSE "False")

\* get_existing_schema answering with every table of the warehouse
get_existing_schema_All(catalogue, table_names) ==
  [ k \in 1..Len(catalogue.tables) |->
      SchemaTable(catalogue.tables[k].table_name, TRUE,
                  [ c \in 1..Len(catalogue.tables[k].columns) |->
                      ColumnRow(catalogue.tables[k].columns[c]) ]) ]

\* SnowflakeClient.get_existing_schema(table_names) on a warehouse holding
\* the tables of catalogue: per name the table whose TABLE_NAME is the
\* upper-cased name, if there is one; the list under "tables"
RECURSIVE get_existing_schema(_, _)
get_existing_schema(catalogue, table_names) ==
  IF table_names = <<>> THEN <<>>
  ELSE
    LET rows == { k \in 1..Len(catalogue.tables) :
                    catalogue.tables[k].table_name = Upper(Head(table_names)) }
        rest == get_existing_schema(catalogue, Tail(table_names)) IN
    IF rows = {} THEN rest
    ELSE LET table_row == catalogue.tables[CHOOSE k \in rows : \A j \in rows : k <= j] IN
         <<SchemaTable(table_row.table_name, TRUE,
                       [ c \in 1..Len(table_row.columns) |->
                           ColumnRow(table_row.columns[c]) ])>> \o rest

InitDrift ==
  /\ \E d \in SchemaSnapshots, l \in SchemaSnapshots, r \in BOOLEAN :
       dr = NewComparison(d, l, r)
  /\ cfg = Unused /\ opts = Unused /\ job = Unused /\ warehouse = 0
  /\ sources = Unused /\ parallel = Unused /\ futures = Unused
  /\ batch = Unused /\ bpc = Unused
  /\ wr = Unused /\ lin = Unused /\ th = Unused /\ trav = Unused

DriftStep(d) ==
  /\ dr' = d
  /\ UNCHANGED <<cfg, opts, job, warehouse, sources, parallel, futures, batch,
                 bpc, wr, lin, th, trav>>

\* actual_schema = self.snowflake_client.get_existing_schema(...): an
\* exception of the client leaves compare
Lookup ==
  /\ dr.pc = "lookup"
  /\ DriftStep([dr EXCEPT !.pc = IF dr.lookup_raises THEN "raised" ELSE "compare"])

\* compare called without snowflake_tables, on a SnowflakeClient whose
\* warehouse holds the tables of live: snowflake_tables = list(doc_table_names)
\* and actual_schema = get_existing_schema(snowflake_tables)
LookupDocumented ==
  /\ dr.pc = "lookup"
  /\ ~dr.lookup_raises
  /\ \E order \in SetOrders :
       DriftStep([dr EXCEPT
         !.pc = "compare",
         !.default_tables = TRUE,
         !.live = Snapshot(TRUE, get_existing_schema(
                    dr.live, Iterate(TableNamesOf(dr.documented), order)))])

\* the rest of compare: the report is returned
Compare ==
  /\ dr.pc = "compare"
  /\ \E order \in SetOrders :
       DriftStep([dr EXCEPT !.pc = "returned",
                            !.report = DriftReport(dr.documented, dr.live, order)])

\* compare(live) with a lookup answering documented
CompareBack ==
  /\ dr.pc = "returned"
  /\ \E order \in SetOrders :
       DriftStep([dr EXCEPT !.pc = "both",
                            !.back = DriftReport(dr.live, dr.documented, order)])

NextDrift ==
  \/ Lookup
  \/ LookupDocumented
  \/ Compare
  \/ CompareBack

SpecDrift == InitDrift /\ [][NextDrift]_vars

\* --------------- SpecQuality: the quality step of jobs run in sequence
\* a documented column: its name and the keys generate_checks_from_schema
\* reads (primary_key, a foreign_key of the form table.column, nullable, pii)
QualityColumns ==
  [ column_name : {"email"}, primary_key : BOOLEAN, foreign_key : BOOLEAN,
    nullable : BOOLEAN, pii : BOOLEAN ]

\* the snapshot of the synced page: the table orders with its columns
QualitySchemas ==
  { [table_name |-> "orders", columns |-> c] :
      c \in UNION { [1..n -> QualityColumns] : n \in 0..MaxColumns } }

QualityCheck(check_type, table_name, column_name, severity) ==
  [ check_type |-> check_type, table_name |-> table_name,
    column_name |-> column_name, severity |-> severity, enabled |-> TRUE ]

\* the checks generated for one column, in the order of the code
ColumnChecks(table_name, column) ==
  LET column_name == Upper(column.column_name) IN
  (IF column.primary_key
     THEN << QualityCheck("unique", table_name, column_name, "error"),
             QualityCheck("not_null", table_name, column_name, "error") >>
     ELSE <<>>)
  \o (IF column.foreign_key
        THEN <<QualityCheck("relationships", table_name, column_name, "error")>>
        ELSE <<>>)
  \o (IF ~column.nullable
        THEN <<QualityCheck("not_null", table_name, column_name, "error")>>
        ELSE <<>>)
  \o (IF column.pii
        THEN <<QualityCheck("regex_match", table_name, column_name, "warning")>>
        ELSE <<>>)

\* generate_checks_from_schema(schema): the list it builds
GeneratedChecks(schema) ==
  LET table_name == Upper(schema.table_name)
      Cols[k \in 0..Len(schema.columns)] ==
        IF k = 0 THEN <<>>
        ELSE Cols[k - 1] \o ColumnChecks(table_name, schema.columns[k]) IN
  <<QualityCheck("row_count", table_name, None, "warning")>>
    \o Cols[Len(schema.columns)]

\* generate_checks_from_schema: self.checks.extend(checks)
generate_checks_from_schema(checks, schema) == checks \o GeneratedChecks(schema)

\* what the warehouse answers to the query of a check type: the check finds
\* nothing, finds offending rows, or the query raises
QueryAnswers == {"clean", "offending", "raise"}
QueriedTypes == {"row_count", "unique", "not_null", "relationships"}
QualityWorlds == [QueriedTypes -> QueryAnswers]

\* the status run_checks records for a check: _run_single_check, and the
\* except clause of run_checks for a query that raised
StatusOf(world, check) ==
  IF ~check.enabled THEN "skipped"
  ELSE IF check.check_type \notin QueriedTypes THEN "passed"
  ELSE IF world[check.check_type] = "raise" THEN "failed"
  ELSE IF world[check.check_type] = "clean" THEN "passed"
  ELSE IF check.check_type = "row_count" /\ check.severity = "warning" THEN "warning"
  ELSE "failed"

\* run_checks(table_filter)
run_checks(checks, world, table_filter) ==
  LET InFilter(c) == c.table_name \in { Upper(t) : t \in table_filter }
      checks_to_run == IF table_filter = {} THEN checks ELSE SelectSeq(checks, InFilter)
      With(status) ==
        Cardinality({ k \in 1..Len(checks_to_run) :
                        StatusOf(world, checks_to_run[k]) = status }) IN
  [ total_checks |-> Len(checks_to_run), passed |-> With("passed"),
    failed |-> With("failed"), warnings |-> With("warning"),
    skipped |-> With("skipped") ]

\* the checker of an orchestrator that syncs the page of schema against a
\* warehouse answering world; reports holds the report of every sync
InitQuality ==
  /\ \E schema \in QualitySchemas, world \in QualityWorlds :
       dr = [schema |-> schema, world |-> world, checks |-> <<>>, reports |-> <<>>]
  /\ cfg = Unused /\ opts = Unused /\ job = Unused /\ warehouse = 0
  /\ sources = Unused /\ parallel = Unused /\ futures = Unused
  /\ batch = Unused /\ bpc = Unused
  /\ wr = Unused /\ lin = Unused /\ th = Unused /\ trav = Unused

\* the quality step of one more sync of the page: generate_checks_from_schema
\* and run_checks on the tables of the snapshot
QualitySync ==
  /\ Len(dr.reports) < MaxSyncs
  /\ LET checks == generate_checks_from_schema(dr.checks, dr.schema) IN
     dr' = [dr EXCEPT !.checks = checks,
                      !.reports = Append(@, run_checks(checks, dr.world,
                                                       {dr.schema.table_name}))]
  /\ UNCHANGED <<cfg, opts, job, warehouse, sources, parallel, futures, batch,
                 bpc, wr, lin, th, trav>>

NextQuality == QualitySync

SpecQuality == InitQuality /\ [][NextQuality]_vars

\* ================================================================== claims
Has(seq, x) == \E i \in 1..Len(seq) : seq[i] = x

Called(js, name) == Has(js.trace, name)

\* the steps that follow extraction
AfterExtract ==
  {"index", "lineage", "drift", "write", "audit_comment", "dbt", "audit_dbt",
   "er", "quality", "audit_complete"}

\* the steps that follow the drift check
AfterDrift == {"write", "audit_comment", "dbt", "audit_dbt", "er", "quality"}

NoneCalled(js, steps) == \A name \in steps : ~Called(js, name)

\* the result of job i of the batch when it is run on its own, against the
\* same answers of the collaborators
Alone(i) ==
  RunPipeline(cfg, JobOpts(i), NewJob(sources[i].type, sources[i].id),
              futures[i].world)

BatchEnded == bpc \in {"returned", "raised"}

\* C1: sync_confluence_page and sync_jira_issue always return a SyncResult and
\* never raise, whichever collaborator fails.
C1_JobNeverRaises == job.pc # "raised"

\* C2: batch isolation. When a batch in which a job failed at fetch has ended,
\* batch_sync has returned a result for every source, and the result of every
\* other job is the one it gives when run alone.
C2_BatchIsolation ==
  \A j \in 1..Len(futures) :
    (/\ BatchEnded
     /\ Len(sources) > 1
     /\ futures[j].state = "done"
     /\ futures[j].js.page = "none")
    => /\ bpc = "returned"
       /\ batch.total_sources = Len(sources)
       /\ Len(batch.results) = Len(sources)
       /\ \A i \in (1..Len(sources)) \ {j} : batch.results[i] = ResultOf(Alone(i))

\* C3: when batch_sync returns, total_sources is the number of submitted
\* sources, there is one result per source, successful and failed count the
\* results with success = true and success = false, and they add up.
C3_BatchTotals ==
  bpc = "returned" =>
    /\ batch.total_sources = Len(sources)
    /\ Len(batch.results) = batch.total_sources
    /\ batch.successful =
         Cardinality({ i \in 1..Len(batch.results) : batch.results[i].success })
    /\ batch.failed =
         Cardinality({ i \in 1..Len(batch.results) : ~batch.results[i].success })
    /\ batch.successful + batch.failed = batch.total_sources

\* a parallel batch has returned with a successful and a failed job
C3_Witness ==
  /\ bpc = "returned"
  /\ parallel
  /\ batch.successful >= 1
  /\ batch.failed >= 1

\* C4: if fetching the source fails, the job returns success = false with the
\* failure in errors and tables_found = 0, and no later step is executed.
C4_FetchFailure ==
  (Finished(job) /\ job.page = "none") =>
    /\ job.pc = "returned"
    /\ ~job.success
    /\ Has(job.errors, "fetch")
    /\ job.tables_found = 0
    /\ NoneCalled(job, {"extract"} \cup AfterExtract)

\* C5: if extraction fails (the extractor raises after its retries, or hands
\* back None because the response was unparseable or every backend failed),
\* the job returns success = false with the failure in errors and runs no
\* later step.
C5_ExtractFailure ==
  (job.pc = "returned" /\ job.schema.kind \in {"raise", "none"}) =>
    /\ ~job.success
    /\ job.errors # <<>>
    /\ NoneCalled(job, AfterExtract)

\* C6: if extraction succeeds with a snapshot of zero tables, the job returns
\* success = true with the 'no tables' warning, no errors, tables_found = 0,
\* and performs no further step.
C6_ZeroTables ==
  job.schema = Produced("ok", 0) =>
    /\ job.pc = "returned"
    /\ job.success
    /\ job.warnings = <<"no_tables">>
    /\ job.errors = <<>>
    /\ job.tables_found = 0
    /\ NoneCalled(job, AfterExtract)
    /\ warehouse = 0

\* the extractor has handed back an empty snapshot
C6_Witness ==
  /\ job.schema = Produced("ok", 0)
  /\ Called(job, "extract")
  /\ job.pc = "returned"

\* C7: an error raised by the drift check, by artifact generation or by the
\* quality check is recorded in the job's errors and does not make the result
\* success = false.
C7_StepErrorsNotFatal ==
  (/\ job.pc = "returned"
   /\ \E tag \in {"drift", "dbt", "er", "quality"} : Has(job.errors, tag))
  => job.success

\* C8: with lineage enabled, an error raised while recording lineage is never
\* fatal: the job goes on to the drift check and the warehouse write, and its
\* success flag is unaffected.
C8_LineageNotFatal ==
  (job.pc = "returned" /\ Has(job.errors, "lineage")) =>
    /\ job.success
    /\ (cfg.drift /\ ~opts.skip_drift_check) => Called(job, "drift")
    /\ ~opts.dry_run => Called(job, "write")

\* C9: when the drift check ran, drift_issues is the report's total_issues and
\* a report with a high-severity issue is surfaced as a warning, for every
\* source type.
C9_DriftSurfaced ==
  job.report.ran =>
    /\ job.drift_issues = job.report.total
    /\ job.report.high > 0 => Has(job.warnings, "drift_high")

\* C10: with dry_run and a non-empty snapshot, the job returns success = true
\* with tables_updated = 0 and columns_updated = 0; the writer, the artifact
\* generators and the quality check are never invoked, and the warehouse is
\* unchanged.
C10_DryRun ==
  (/\ Finished(job)
   /\ opts.dry_run
   /\ job.schema.kind = "ok"
   /\ job.schema.n > 0)
  => /\ job.pc = "returned"
     /\ job.success
     /\ job.tables_updated = 0
     /\ job.columns_updated = 0
     /\ NoneCalled(job, AfterDrift)
     /\ warehouse = 0

\* ---------------------------------------------------- the warehouse writer
Outcome(w, item) ==
  IF \E k \in 1..Len(w.log) : w.log[k].item = item
    THEN (CHOOSE e \in {w.log[k] : k \in 1..Len(w.log)} : e.item = item).outcome
    ELSE "unreached"

Count(seq, x) == Cardinality({k \in 1..Len(seq) : seq[k] = x})

CountOutcome(w, items, outcome) ==
  Cardinality({k \in 1..Len(w.log) :
                 w.log[k].item \in items /\ w.log[k].outcome = outcome})

TableItems == {Item(t, 0) : t \in 1..MaxWriteTables}
ColumnItems == {Item(t, c) : t \in 1..MaxWriteTables, c \in 1..MaxWriteColumns}

\* C11: when write_comments returns, every failure met while processing an
\* item (its existence check or its comment write) is an entry of errors, and
\* every table of the snapshot, and every column of a table that is not
\* absent, has been processed whatever failed before it.
C11_BestEffortPerItem ==
  wr.pc = "done" =>
    /\ \A k \in 1..Len(wr.log) :
         wr.log[k].outcome \in {"check_raise", "write_failed"}
           => Has(wr.errors, wr.log[k].item)
    /\ \A t \in 1..wr.nT :
         /\ Outcome(wr, Item(t, 0)) # "unreached"
         /\ Outcome(wr, Item(t, 0)) # "absent"
              => \A c \in 1..wr.nC : Outcome(wr, Item(t, c)) # "unreached"

Exceptions ==
  { "fetch", "prompt", "extract", "index", "lineage", "drift", "write",
    "audit_comment", "dbt", "audit_dbt", "er", "quality", "audit_complete" }

NoStepRaised(js) == \A e \in Exceptions : ~Has(js.errors, e)

\* C12: in a job that returns after its warehouse write with no step having
\* raised, success is true and SyncResult.errors holds every entry of the
\* writer's errors list and the failure that made the writer stop early.
C12_WriterErrorsReported ==
  (job.pc = "returned" /\ job.sf.ran /\ NoStepRaised(job)) =>
    /\ job.success
    /\ \A k \in 1..Len(job.sf.errors) : Has(job.errors, job.sf.errors[k])
    /\ job.sf.aborted => job.errors # <<>>

\* C14: in parallel mode the k-th collected result is the result of the k-th
\* submitted source, Confluence pages first and Jira issues after them,
\* whatever the order in which the jobs completed on the pool.
C14_SubmissionOrder ==
  (parallel = TRUE /\ bpc \in {"collect", "returned"}) =>
    /\ \A k \in 1..Len(batch.results) :
         /\ batch.results[k].source_type = sources[k].type
         /\ batch.results[k].source_id = sources[k].id
         /\ batch.results[k] = ResultOf(futures[k].js)
    /\ \A i \in 1..Len(sources), k \in 1..Len(sources) :
         (i < k /\ sources[i].type = "jira") => sources[k].type = "jira"

\* a batch has returned in which a job completed before an earlier one
C14_Witness ==
  /\ parallel = TRUE /\ bpc = "returned"
  /\ Len(batch.results) = Len(sources)
  /\ \E k \in 1..Len(futures) : futures[k].overtook

\* C15: batch_sync returns only when every submitted job has run to its end
\* and its result is in the list, and batch_sync eventually returns.
C15_BatchCompletes ==
  /\ [](bpc = "returned" =>
          /\ \A i \in 1..Len(futures) : futures[i].state = "done"
          /\ Len(batch.results) = Len(sources))
  /\ <>(bpc = "returned")

\* ------------------------------------------------------ the lineage graph
EdgeCalls(g, source_id, target_id) ==
  { k \in 1..Len(g.calls) : /\ g.calls[k].op = "edge"
                            /\ g.calls[k].id = source_id
                            /\ g.calls[k].target = target_id }

NodeCalls(g, id) ==
  { k \in 1..Len(g.calls) : g.calls[k].op = "node" /\ g.calls[k].id = id }

First(S) == CHOOSE k \in S : \A j \in S : k <= j
Last(S) == CHOOSE k \in S : \A j \in S : j <= k

\* C17: after any sequence of add_edge calls on an empty graph the edge list
\* has exactly one edge for each ordered pair that was added, carrying the
\* relationship and metadata of the first call for that pair.
C17_OneEdgePerPair ==
  /\ \A i \in 1..Len(lin.edges), j \in 1..Len(lin.edges) :
       (/\ lin.edges[i].source_id = lin.edges[j].source_id
        /\ lin.edges[i].target_id = lin.edges[j].target_id) => i = j
  /\ \A k \in 1..Len(lin.calls) :
       lin.calls[k].op = "edge" =>
         LET first == lin.calls[First(EdgeCalls(lin, lin.calls[k].id, lin.calls[k].target))] IN
         \E e \in 1..Len(lin.edges) :
           lin.edges[e] = [ source_id |-> first.id, target_id |-> first.target,
                            relationship |-> first.label, metadata |-> first.metadata ]
  /\ \A e \in 1..Len(lin.edges) :
       EdgeCalls(lin, lin.edges[e].source_id, lin.edges[e].target_id) # {}

\* the same pair was added twice with different relationships, and the
\* reverse pair once
C17_Witness ==
  /\ Len(lin.edges) = 2
  /\ lin.edges[1].source_id = lin.edges[2].target_id
  /\ lin.edges[1].target_id = lin.edges[2].source_id
  /\ lin.edges[1].source_id # lin.edges[1].target_id
  /\ \E i \in 1..Len(lin.calls), j \in 1..Len(lin.calls) :
       /\ i < j
       /\ lin.calls[i].op = "edge" /\ lin.calls[j].op = "edge"
       /\ lin.calls[i].id = lin.calls[j].id
       /\ lin.calls[i].target = lin.calls[j].target
       /\ lin.calls[i].label # lin.calls[j].label

\* C18: after any sequence of add_table / add_column / add_document /
\* add_transformation calls the node map has exactly the keys inserted, and
\* the node at a key has the name and the metadata of the last insertion for
\* that key.
C18_UpsertLastWins ==
  /\ DOMAIN lin.nodes = { lin.calls[k].id : k \in { j \in 1..Len(lin.calls) :
                                                     lin.calls[j].op = "node" } }
  /\ \A id \in DOMAIN lin.nodes :
       LET last == lin.calls[Last(NodeCalls(lin, id))] IN
       /\ lin.nodes[id].id = id
       /\ lin.nodes[id].name = last.label
       /\ lin.nodes[id].metadata = last.metadata

\* a key was inserted twice with different metadata, and another key once
C18_Witness ==
  /\ Cardinality(DOMAIN lin.nodes) = 2
  /\ \E id \in DOMAIN lin.nodes :
       /\ Cardinality(NodeCalls(lin, id)) = 2
       /\ lin.calls[First(NodeCalls(lin, id))].metadata
            # lin.calls[Last(NodeCalls(lin, id))].metadata

\* ------------------------------------------------------------- traversal
Reports(t, id) == Cardinality({ k \in 1..Len(t.result) : t.result[k].id = id })

\* C19: the list a traversal returns holds each node at most once.
C19_ReportedOnce ==
  trav.pc = "done" => \A id \in NodeIds : Reports(trav, id) <= 1

\* the steps a traversal can still take, counted generously: every node not
\* yet visited can add one call with a full loop, every active call can
\* still report its remaining edges and return
Remaining(t) ==
  LET n == Len(t.edges) + 2
      LoopLeft[k \in 0..Len(t.stack)] ==
        IF k = 0 THEN 0 ELSE LoopLeft[k - 1] + (n - t.stack[k].next) IN
  (IF t.pc = "call" THEN 1 ELSE 0)
    + Cardinality(NodeIds \ t.visited) * n + LoopLeft[Len(t.stack)]

\* C20: every get_upstream / get_downstream call terminates, on every graph
\* (cycles and self-loops included) and for every depth bound; on the cycle
\* 1 -> 2 -> 3 -> 1, get_downstream(1, 5) returns 2 and 3 at most once each.
C20_Terminates ==
  /\ <>(trav.pc = "done")
  /\ [][Remaining(trav') < Remaining(trav)]_trav
  /\ [](( /\ trav.pc = "done" /\ trav.dir = "down" /\ trav.depth = 5
          /\ trav.edges = << <<1, 2>>, <<2, 3>>, <<3, 1>> >> )
        => (Reports(trav, 2) <= 1 /\ Reports(trav, 3) <= 1))

\* get_downstream(1, 5) has returned on the cycle 1 -> 2 -> 3 -> 1
C20_Witness ==
  /\ trav.pc = "done" /\ trav.dir = "down" /\ trav.depth = 5
  /\ trav.nodes = NodeIds
  /\ trav.edges = << <<1, 2>>, <<2, 3>>, <<3, 1>> >>
  /\ Reports(trav, 2) = 1 /\ Reports(trav, 3) = 1

\* ------------------------------------------------- concurrent lineage
Quiet == \A i \in Threads : th[i].pc \in {"finished", "raised"}

\* C16: when every job of a parallel batch has left its lineage step, the
\* graph holds the document node, the table node and the edge of every job
\* that completed the step, and the two files hold the node map and the edge
\* list of the in-memory graph.
C16_NoLostUpdate ==
  Quiet =>
    /\ \A i \in Threads :
         th[i].pc = "finished" =>
           /\ DocId("confluence", th[i].source_id) \in DOMAIN lin.nodes
           /\ TableId("orders") \in DOMAIN lin.nodes
           /\ EdgeExists(lin.edges, TableId("orders"),
                         DocId("confluence", th[i].source_id))
    /\ lin.nodes_file = Dumped(NodesJson(lin.nodes), Cardinality(DOMAIN lin.nodes))
    /\ lin.edges_file = Dumped(EdgesJson(lin.edges), Len(lin.edges))

\* ------------------------------------------------- depth-bounded traversal
\* the nodes joined to the start node by a path of exactly d edges followed
\* in the direction of the traversal, every node after the start being a key
\* of the node map
Joined(t, d) ==
  LET At[k \in 0..d] ==
        IF k = 0 THEN {t.node_id}
        ELSE { Far(t.edges[i], t.dir) :
                 i \in { j \in 1..Len(t.edges) :
                           /\ Near(t.edges[j], t.dir) \in At[k - 1]
                           /\ Far(t.edges[j], t.dir) \in t.nodes } } IN
  At[d]

\* C21: every entry of a traversal's result has a depth between 1 and the
\* depth bound and is joined to the start node by a path of exactly that many
\* edges through nodes of the node map; the bound is 3 when the argument is
\* left out, and a bound of 0 or less gives an empty list.
C21_DepthBounded ==
  /\ \A k \in 1..Len(trav.result) :
       /\ 1 <= trav.result[k].depth
       /\ trav.result[k].depth <= trav.depth
       /\ trav.result[k].id \in Joined(trav, trav.result[k].depth)
  /\ ~trav.given => trav.depth = 3
  /\ (trav.pc = "done" /\ trav.depth <= 0) => trav.result = <<>>

\* a traversal with the default bound has returned an entry at depth 3
C21_Witness ==
  /\ trav.pc = "done" /\ ~trav.given
  /\ \E k \in 1..Len(trav.result) : trav.result[k].depth = 3

\* ------------------------------------------------------- impact analysis
\* in how many of the three lists of an impact report the entry d is
Listed(r, d) ==
  (IF Has(r.impacted_tables, d) THEN 1 ELSE 0)
    + (IF Has(r.impacted_transformations, d) THEN 1 ELSE 0)
    + (IF Has(r.impacted_documents, d) THEN 1 ELSE 0)

\* C22: on every graph, every entry of get_downstream of the table's node is
\* in exactly one of the three lists impact_analysis returns, and
\* total_impacted is the sum of the sizes of the three lists.
C22_ImpactPartition ==
  \A n \in TableNames :
    LET r == impact_analysis(lin, n)
        d == get_downstream(lin, TableId(n), [given |-> FALSE, value |-> 0]) IN
    /\ \A k \in 1..Len(d) : Listed(r, d[k]) = 1
    /\ r.total_impacted = Len(r.impacted_tables)
                            + Len(r.impacted_transformations)
                            + Len(r.impacted_documents)

\* ------------------------------------------------------------ persistence
\* C23: under sequential execution, after every call of the tracker has
\* returned, a tracker loaded from the same storage has the node keys, the
\* node attributes and the edge list (in order) of the in-memory graph, so
\* every mutating call has rewritten both files in full.
C23_PersistedEqualsMemory ==
  /\ ~_load(lin).raised
  /\ _load(lin).nodes = lin.nodes
  /\ _load(lin).edges = lin.edges
  /\ lin.calls # <<>> =>
       /\ lin.nodes_file.state = "ok" => lin.nodes_file.size = Cardinality(DOMAIN lin.nodes)
       /\ lin.edges_file.state = "ok" => lin.edges_file.size = Len(lin.edges)

\* a node with a None attribute and an edge are in the graph, and the last
\* call was an add_edge that found its pair present and appended nothing
C23_Witness ==
  /\ Len(lin.calls) = 3
  /\ lin.calls[1].op = "node" /\ lin.calls[1].metadata[2] = None
  /\ lin.calls[2].op = "edge" /\ lin.calls[3].op = "edge"
  /\ lin.calls[2].id = lin.calls[3].id
  /\ lin.calls[2].target = lin.calls[3].target
  /\ Len(lin.edges) = 1
  /\ lin.edges_file.state = "ok"

\* ------------------------------------------------------- the drift report
Compared == dr.pc \in {"returned", "both"}

IssuesOf(report, drift_type) ==
  { report.issues[k] : k \in { j \in 1..Len(report.issues) :
                                 report.issues[j].drift_type = drift_type } }

\* how many issues of a report have the kind, table and column given
CountIssues(report, drift_type, table_name, column_name) ==
  Cardinality({ k \in 1..Len(report.issues) :
                  /\ report.issues[k].drift_type = drift_type
                  /\ report.issues[k].table_name = table_name
                  /\ report.issues[k].column_name = column_name })

\* C24: the report compare returns has total_issues = len(issues), each
\* severity count is the number of issues of that severity, and the three
\* counts add up to total_issues.
C24_ReportTotals ==
  Compared =>
    /\ dr.report.total_issues = Len(dr.report.issues)
    /\ dr.report.high_severity = Severity(dr.report.issues, "high")
    /\ dr.report.medium_severity = Severity(dr.report.issues, "medium")
    /\ dr.report.low_severity = Severity(dr.report.issues, "low")
    /\ dr.report.high_severity + dr.report.medium_severity
         + dr.report.low_severity = dr.report.total_issues

\* a report with issues of two severities
C24_Witness ==
  /\ dr.pc = "returned"
  /\ dr.report.high_severity >= 1 /\ dr.report.medium_severity >= 2

\* C25: compare of a documented schema against a live schema identical to it
\* (same tables, columns, data types and nullable flags) reports no issue.
C25_CompareSelf ==
  (Compared /\ dr.live = dr.documented) =>
    /\ dr.report.issues = <<>>
    /\ dr.report.total_issues = 0

\* a schema with a table of three columns, one of them without a nullable
\* flag, has been compared with itself
C25_Witness ==
  /\ dr.pc = "returned" /\ dr.live = dr.documented
  /\ Len(dr.documented.tables) = MaxDriftTables
  /\ Len(dr.documented.tables[1].columns) = 3
  /\ dr.documented.tables[1].columns[1].nullable = Absent
  /\ dr.report.issues = <<>>

\* the issue the comparison in the other direction has for an issue
Mirror(issue) ==
  LET t == issue.drift_type IN
  [ issue EXCEPT
      !.drift_type = CASE t = "table_missing_in_snowflake" -> "table_missing_in_docs"
                       [] t = "table_missing_in_docs" -> "table_missing_in_snowflake"
                       [] t = "column_missing_in_snowflake" -> "column_missing_in_docs"
                       [] t = "column_missing_in_docs" -> "column_missing_in_snowflake"
                       [] OTHER -> t,
      !.severity = CASE t \in {"table_missing_in_snowflake",
                               "column_missing_in_snowflake"} -> "medium"
                     [] t \in {"table_missing_in_docs",
                               "column_missing_in_docs"} -> "high"
                     [] OTHER -> @,
      !.expected_value = issue.actual_value,
      !.actual_value = issue.expected_value ]

AllIssues(report) == { report.issues[k] : k \in 1..Len(report.issues) }

\* C26: the tables and columns compare(documented = A, live = B) reports as
\* missing in the warehouse are those compare(documented = B, live = A)
\* reports as missing in the docs and vice versa, and both report the same
\* type and nullable mismatches with expected and actual values swapped.
C26_Symmetric ==
  dr.pc = "both" =>
    /\ AllIssues(dr.back) = { Mirror(i) : i \in AllIssues(dr.report) }
    /\ Len(dr.back.issues) = Len(dr.report.issues)

\* both directions compared on schemas that differ in a table, in a column
\* and in a data type
C26_Witness ==
  /\ dr.pc = "both"
  /\ IssuesOf(dr.report, "table_missing_in_snowflake") # {}
  /\ IssuesOf(dr.report, "column_missing_in_docs") # {}
  /\ IssuesOf(dr.report, "type_mismatch") # {}
  /\ IssuesOf(dr.back, "table_missing_in_docs") # {}

\* the columns of the first table when both schemas have it with the first
\* column in it
BothHaveColumn ==
  /\ Compared
  /\ dr.documented.tables # <<>> /\ dr.live.tables # <<>>
  /\ Upper(dr.documented.tables[1].table_name) = Upper(DriftTableName(1))
  /\ Upper(dr.live.tables[1].table_name) = Upper(DriftTableName(1))
  /\ dr.documented.tables[1].columns # <<>> /\ dr.live.tables[1].columns # <<>>
  /\ dr.documented.tables[1].columns[1].column_name = DriftColumnName(1)
  /\ dr.live.tables[1].columns[1].column_name = DriftColumnName(1)

DocType == TypeOf(dr.documented.tables[1].columns[1])
LiveType == TypeOf(dr.live.tables[1].columns[1])

SameClass(type1, type2) == \E group \in type_groups : type1 \in group /\ type2 \in group

TypeFlagged ==
  CountIssues(dr.report, "type_mismatch", Upper(DriftTableName(1)),
              Upper(DriftColumnName(1))) >= 1

\* the data types the class relation is examined on
SomeTypes == (UNION type_groups) \cup {"", "VARIANT", "GEOGRAPHY"}

ClassRelationIsEquivalence ==
  /\ \A a \in SomeTypes : _types_compatible(a, a)
  /\ \A a \in SomeTypes, b \in SomeTypes :
       _types_compatible(a, b) => _types_compatible(b, a)
  /\ \A a \in SomeTypes, b \in SomeTypes, c \in SomeTypes :
       (_types_compatible(a, b) /\ _types_compatible(b, c)) => _types_compatible(a, c)

\* C27 as stated: for a column on both sides a type-mismatch issue is raised
\* if and only if the two data types, upper-cased, differ and are not in one
\* class.
C27_TypeMismatchIff ==
  BothHaveColumn =>
    (TypeFlagged <=> (DocType # LiveType /\ ~SameClass(DocType, LiveType)))

\* C27: for a column on both sides one HIGH type-mismatch issue is raised if
\* and only if both data types are given and, upper-cased, differ and are not
\* in one class; VARCHAR against STRING is not flagged, VARCHAR against
\* INTEGER is; the class relation is an equivalence.
C27_TypeMismatchWhenGiven ==
  /\ BothHaveColumn =>
       /\ TypeFlagged <=> (/\ DocType # "" /\ LiveType # ""
                           /\ DocType # LiveType /\ ~SameClass(DocType, LiveType))
       /\ TypeFlagged =>
            /\ CountIssues(dr.report, "type_mismatch", Upper(DriftTableName(1)),
                           Upper(DriftColumnName(1))) = 1
            /\ \A i \in IssuesOf(dr.report, "type_mismatch") :
                 i.column_name = Upper(DriftColumnName(1)) =>
                   /\ i.severity = "high"
                   /\ i.expected_value = DocType /\ i.actual_value = LiveType
       /\ (DocType = "VARCHAR" /\ LiveType = "STRING") => ~TypeFlagged
       /\ (DocType = "VARCHAR" /\ LiveType = "INTEGER") => TypeFlagged
  /\ ClassRelationIsEquivalence

\* a column documented as varchar and INTEGER in the warehouse was compared
C27_Witness ==
  /\ BothHaveColumn /\ DocType = "VARCHAR" /\ LiveType = "INTEGER" /\ TypeFlagged

\* the upper-cased table names of a snapshot and column names of a table
UpperTables(schema) == { Upper(schema.tables[k].table_name) : k \in 1..Len(schema.tables) }
UpperColumns(table) == { Upper(table.columns[k].column_name) : k \in 1..Len(table.columns) }

\* the table of a snapshot with the upper-cased name given
TheTableOf(schema, name) ==
  schema.tables[CHOOSE k \in 1..Len(schema.tables) :
                  Upper(schema.tables[k].table_name) = name]

MissingKinds ==
  { "table_missing_in_snowflake", "table_missing_in_docs",
    "column_missing_in_snowflake", "column_missing_in_docs" }

\* the (kind, severity, table, column) of the missing-issues a report of the
\* documented schema D against the live schema L has to hold
ExpectedMissing(D, L) ==
  { <<"table_missing_in_snowflake", "high", n, None>> : n \in UpperTables(D) \ UpperTables(L) }
  \cup { <<"table_missing_in_docs", "medium", n, None>> : n \in UpperTables(L) \ UpperTables(D) }
  \cup UNION { { <<"column_missing_in_snowflake", "high", n, c>> :
                   c \in UpperColumns(TheTableOf(D, n)) \ UpperColumns(TheTableOf(L, n)) }
               : n \in UpperTables(D) \cap UpperTables(L) }
  \cup UNION { { <<"column_missing_in_docs", "medium", n, c>> :
                   c \in UpperColumns(TheTableOf(L, n)) \ UpperColumns(TheTableOf(D, n)) }
               : n \in UpperTables(D) \cap UpperTables(L) }

MissingIssues(report) ==
  { k \in 1..Len(report.issues) : report.issues[k].drift_type \in MissingKinds }

\* documented CUSTOMERS(ID, EMAIL) against live CUSTOMERS(ID, EMAIL, NAME)
CustomersExample ==
  /\ Len(dr.documented.tables) = 1 /\ Len(dr.live.tables) = 1
  /\ UpperTables(dr.documented) = {"CUSTOMERS"} /\ UpperTables(dr.live) = {"CUSTOMERS"}
  /\ Len(dr.documented.tables[1].columns) = 2
  /\ Len(dr.live.tables[1].columns) = 3
  /\ SubSeq(dr.live.tables[1].columns, 1, 2) = dr.documented.tables[1].columns
  /\ UpperColumns(dr.documented.tables[1]) = {"ID", "EMAIL"}
  /\ UpperColumns(dr.live.tables[1]) = {"ID", "EMAIL", "NAME"}

\* C28: with names compared after upper-casing, the report holds exactly one
\* HIGH table-missing-in-warehouse issue per documented-only table, one MEDIUM
\* table-missing-in-docs issue per live-only table, and per common table one
\* HIGH column-missing-in-warehouse issue per documented-only column and one
\* MEDIUM column-missing-in-docs issue per live-only column, and no other
\* missing-issue; documented CUSTOMERS(ID, EMAIL) against live
\* CUSTOMERS(ID, EMAIL, NAME) gives one MEDIUM column-missing-in-docs issue,
\* for NAME, and high_severity = 0.
C28_MissingIssues ==
  Compared =>
    /\ { << dr.report.issues[k].drift_type, dr.report.issues[k].severity,
            dr.report.issues[k].table_name, dr.report.issues[k].column_name >> :
           k \in MissingIssues(dr.report) }
         = ExpectedMissing(dr.documented, dr.live)
    /\ Cardinality(MissingIssues(dr.report))
         = Cardinality(ExpectedMissing(dr.documented, dr.live))
    /\ CustomersExample =>
         /\ Len(dr.report.issues) = 1
         /\ dr.report.issues[1].drift_type = "column_missing_in_docs"
         /\ dr.report.issues[1].severity = "medium"
         /\ dr.report.issues[1].column_name = "NAME"
         /\ dr.report.high_severity = 0

\* the CUSTOMERS example has been compared, the documented names in lower case
C28_Witness ==
  /\ dr.pc = "returned" /\ CustomersExample
  /\ dr.documented.tables[1].table_name = "customers"
  /\ dr.report.total_issues = 1

\* C29: compare returns a DriftReport and never raises, whichever fields the
\* snapshots lack and whatever the outcome of the lookup of the live schema.
C29_CompareNeverRaises == dr.pc # "raised"

\* ------------------------------------------------------ the order of steps
\* the place of a step of the pipeline in the order fetch, extract, index,
\* lineage, drift, write, artifacts (dbt, then ER diagram), quality
StepRank(name) ==
  CASE name = "fetch" -> 1 [] name = "extract" -> 2 [] name = "index" -> 3
    [] name = "lineage" -> 4 [] name = "drift" -> 5 [] name = "write" -> 6
    [] name = "dbt" -> 7 [] name = "er" -> 8 [] name = "quality" -> 9
    [] OTHER -> 0

\* the steps of the pipeline among the calls a job made, in the order made
StepsOf(js) ==
  LET IsStep(name) == StepRank(name) > 0 IN SelectSeq(js.trace, IsStep)

\* C30: the steps of a job run in the order fetch, extract, index, lineage,
\* drift, write, artifacts, quality, none of them twice; the warehouse is
\* written only after the job's drift check (when enabled and not skipped)
\* has completed, and lineage is recorded only after the extraction gave at
\* least one table.
C30_StepOrder ==
  /\ LET steps == StepsOf(job) IN
     \A i \in 1..(Len(steps) - 1) : StepRank(steps[i]) < StepRank(steps[i + 1])
  /\ (Called(job, "write") /\ cfg.drift /\ ~opts.skip_drift_check) =>
       /\ Called(job, "drift")
       /\ job.report.ran
  /\ (job.written > 0 /\ cfg.drift /\ ~opts.skip_drift_check) => job.report.ran
  /\ Called(job, "lineage") => (job.schema.kind = "ok" /\ job.schema.n >= 1)

\* a job has returned having run every step
C30_Witness ==
  /\ job.pc = "returned" /\ job.success
  /\ StepsOf(job) = <<"fetch", "extract", "index", "lineage", "drift", "write",
                      "dbt", "er", "quality">>
  /\ job.written > 0

\* ----------------------------------------------- the order of the issues
\* the place of an issue kind in the order of a report
KindRank(drift_type) ==
  CASE drift_type = "table_missing_in_snowflake" -> 1
    [] drift_type = "table_missing_in_docs" -> 2
    [] drift_type = "column_missing_in_snowflake" -> 3
    [] drift_type = "column_missing_in_docs" -> 4
    [] drift_type = "type_mismatch" -> 5
    [] OTHER -> 6

\* C31: in a report the table-missing-in-warehouse issues come first, then
\* the table-missing-in-docs issues, then the column issues table by table,
\* and those of one table kind by kind: column-missing-in-warehouse,
\* column-missing-in-docs, type-mismatch, nullable-mismatch.
C31_IssueOrder ==
  Compared =>
    LET issues == dr.report.issues IN
    \A i \in 1..Len(issues), j \in 1..Len(issues) :
      i < j =>
        /\ (KindRank(issues[i].drift_type) <= 2 \/ KindRank(issues[j].drift_type) <= 2)
             => KindRank(issues[i].drift_type) <= KindRank(issues[j].drift_type)
        /\ (/\ KindRank(issues[i].drift_type) > 2 /\ KindRank(issues[j].drift_type) > 2
            /\ issues[i].table_name = issues[j].table_name)
             => /\ KindRank(issues[i].drift_type) <= KindRank(issues[j].drift_type)
                /\ \A k \in i..j : issues[k].table_name = issues[i].table_name

\* ------------------------------------------- the default table list
\* C39: when compare is called without a table list, the live schema is
\* looked up for the documented table names only: the live tables are among
\* the documented ones, the report has no table-missing-in-docs issue and its
\* snowflake_tables count is at most the number of distinct documented names.
C39_DefaultLookup ==
  (Compared /\ dr.default_tables) =>
    /\ UpperTables(dr.live) \subseteq UpperTables(dr.documented)
    /\ IssuesOf(dr.report, "table_missing_in_docs") = {}
    /\ dr.report.snowflake_tables <= Cardinality(UpperTables(dr.documented))

\* a call without a table list found one of two documented tables in the
\* warehouse and compared its columns
C39_Witness ==
  /\ dr.pc = "returned" /\ dr.default_tables
  /\ Cardinality(UpperTables(dr.documented)) = 2
  /\ dr.report.snowflake_tables = 1
  /\ IssuesOf(dr.report, "table_missing_in_snowflake") # {}
  /\ IssuesOf(dr.report, "column_missing_in_docs") # {}

\* ------------------------------------------------ the start of a traversal
\* C35: the node a get_upstream / get_downstream call starts from is never an
\* entry of the call's result, on any graph, cyclic ones included.
C35_StartNotReported ==
  \A k \in 1..Len(trav.result) : trav.result[k].id # trav.node_id

\* ------------------------------------------------ complete within the bound
\* the ids of the entries of a traversal's result
Reported(t) == { t.result[k].id : k \in 1..Len(t.result) }

\* C34: a traversal that has returned reports every node joined to the start
\* node by a path of at most depth edges followed in its direction through
\* nodes of the node map, whatever the order of the edge list.
C34_CompleteWithinBound ==
  trav.pc = "done" =>
    \A d \in 1..trav.depth : Joined(trav, d) \subseteq Reported(trav)

\* ------------------------------------------- edges of concurrent jobs
\* how many edges of the list join source_id to target_id
EdgesBetween(edges, source_id, target_id) ==
  Cardinality({ k \in 1..Len(edges) :
                  /\ edges[k].source_id = source_id
                  /\ edges[k].target_id = target_id })

\* C36: while jobs of a parallel batch record their lineage, the edge list
\* holds at most one edge from the table to the document of a source, also
\* when two jobs sync the same source.
C36_EdgeUniqueConcurrent ==
  \A s \in SourceIds :
    EdgesBetween(lin.edges, TableId("orders"), DocId("confluence", s)) <= 1

\* ---------------------------------------------------------- re-syncing
\* the same source and the same table names up to letter case
SameJob(a, b) ==
  /\ a.source_id = b.source_id
  /\ { Upper(a.tables[k]) : k \in 1..Len(a.tables) }
       = { Upper(b.tables[k]) : k \in 1..Len(b.tables) }

\* the table of a job has its node, the node of the job's document and one
\* documented_in edge to it
Documented(g, j, table_name) ==
  /\ TableId(table_name) \in DOMAIN g.nodes
  /\ DocId("confluence", j.source_id) \in DOMAIN g.nodes
  /\ EdgesBetween(g.edges, TableId(table_name),
                  DocId("confluence", j.source_id)) = 1
  /\ \A k \in 1..Len(g.edges) :
       (/\ g.edges[k].source_id = TableId(table_name)
        /\ g.edges[k].target_id = DocId("confluence", j.source_id))
         => g.edges[k].relationship = "documented_in"

\* C38: a job run right after a job of the same source with the same table
\* names up to letter case adds no node key and no edge, and every table of
\* every job run has its table node, the document node and one documented_in
\* edge from the table to the document.
C38_ResyncIdempotent ==
  /\ [](\A n \in 1..Len(th) :
          \A k \in 1..Len(th[n].tables) : Documented(lin, th[n], th[n].tables[k]))
  /\ [][(th # <<>> /\ th' # th /\ SameJob(th[Len(th)], th'[Len(th')]))
          => (DOMAIN lin'.nodes = DOMAIN lin.nodes /\ lin'.edges = lin.edges)]_vars

\* a page documenting two tables was synced twice, the second time with the
\* table names in the other letter case
C38_Witness ==
  /\ Len(th) = 2 /\ SameJob(th[1], th[2])
  /\ th[1].tables = <<"orders", "customers">>
  /\ th[2].tables = <<"ORDERS", "CUSTOMERS">>
  /\ Len(lin.edges) = 2

\* ------------------------------------------------- failed jobs and writes
\* C33: a job that returned success = false wrote nothing to the warehouse;
\* once write_comments has returned to a job, the job returns success = true
\* with tables_updated and columns_updated counting the comments written.
C33_FailedJobWroteNothing ==
  job.pc = "returned" =>
    /\ ~job.success => (job.written = 0 /\ warehouse = 0)
    /\ job.sf.ran =>
         /\ job.success
         /\ job.tables_updated + job.columns_updated = job.written

\* ------------------------------------------------- the audit trail of a job
\* how many entries the call name left in the audit log: the calls made, less
\* the one that raised (its message is in the job's errors)
Audited(js, name) ==
  Cardinality({ k \in 1..Len(js.trace) : js.trace[k] = name })
    - (IF Has(js.errors, name) THEN 1 ELSE 0)

AuditCalls == {"audit_start", "audit_comment", "audit_dbt", "audit_complete", "audit_failed"}

\* C37: with auditing enabled, a job that has returned logged SYNC_STARTED
\* before every other audit event and exactly one terminal event,
\* SYNC_COMPLETED if it returned success = true and SYNC_FAILED if it returned
\* success = false; dry-run jobs and jobs that found no table included.
C37_OneTerminalAudit ==
  (cfg.audit /\ job.pc = "returned") =>
    /\ Audited(job, "audit_start") = 1
    /\ \A k \in 1..Len(job.trace) :
         job.trace[k] \in AuditCalls \ {"audit_start"} =>
           \E h \in 1..(k - 1) : job.trace[h] = "audit_start"
    /\ Audited(job, "audit_complete") + Audited(job, "audit_failed") = 1
    /\ job.success <=> Audited(job, "audit_complete") = 1

\* ------------------------------------------- the multi-backend extractor
\* C32: the backends are invoked in the order primary, then the fallbacks in
\* list order; no backend is invoked twice in one extraction; an extraction
\* that returned a snapshot is tagged with the backend invoked last, and no
\* backend is invoked after a success.
C32_PriorityOrder ==
  /\ [](\A a \in 1..Len(wr.invoked), b \in 1..Len(wr.invoked) :
          wr.invoked[a] = wr.invoked[b] => a = b)
  /\ [](\E pos \in [1..Len(wr.invoked) -> 1..Len(wr.providers_to_try)] :
          /\ \A a \in 1..Len(wr.invoked) :
               wr.providers_to_try[pos[a]] = wr.invoked[a]
          /\ \A a \in 1..Len(wr.invoked), b \in 1..Len(wr.invoked) :
               a < b => pos[a] < pos[b])
  /\ []((wr.pc = "returned" /\ wr.result # SchemaNone) =>
          wr.extracted_by = wr.invoked[Len(wr.invoked)])
  /\ [][wr.pc = "returned" => wr'.invoked = wr.invoked]_wr

\* ------------------------------------------------------ quality checks
\* C40: the report of the n-th sync of a schema counts the same number of
\* checks and the same number of failed checks as the report of its first
\* sync, and in every report passed + failed + warnings + skipped is
\* total_checks.
C40_QualityOfSnapshot ==
  \A n \in 1..Len(dr.reports) :
    /\ dr.reports[n].total_checks = dr.reports[1].total_checks
    /\ dr.reports[n].failed = dr.reports[1].failed
    /\ dr.reports[n].passed + dr.reports[n].failed + dr.reports[n].warnings
         + dr.reports[n].skipped = dr.reports[n].total_checks

====
